---- MODULE Spec2Model ----
(***************************************************************************)
(* Model of vol-analysis: the training orchestrator (src/src/nn/training.rs)*)
(* running on a worker thread, the observer that polls the shared progress *)
(* cells (src/src/ui/nn_view.rs), and the dataset builder                  *)
(* (src/src/nn/dataset.rs) the orchestrator consumes.                      *)
(*                                                                         *)
(* Floating point values that come out of the opaque model (losses,        *)
(* predictions) and out of the analytics are symbolic: a value records     *)
(* where it comes from, so that two values are equal only when the code    *)
(* computes them from the same inputs.                                     *)
(***************************************************************************)
EXTENDS Integers, Sequences, FiniteSets, TLC

(***************************************************************************)
(* Configuration (src/src/config.rs), scaled down so that every branch of  *)
(* train() is reached within a small state space.  The source values are   *)
(* SHORT_VOL_WINDOW = 21, LONG_VOL_WINDOW = 63, NN_LOOKBACK_DAYS = 60,      *)
(* NN_FORWARD_DAYS = 5, NN_EPOCHS = 1000, NN_BATCH_SIZE = 32, and a feature  *)
(* row has 11 sector slots.                                                *)
(* As in the source, the long window exceeds the short one by more than two *)
(* days, so a series that is long enough yields more than three windows.   *)
(***************************************************************************)
SHORT_VOL_WINDOW == 2

LONG_VOL_WINDOW == 5

NN_LOOKBACK_DAYS == 2

NN_FORWARD_DAYS == 1

NN_EPOCHS == 2

NN_BATCH_SIZE == 5

\* Number of sector slots of a feature row (the literal 11 of build_dataset).
SECTOR_SLOTS == 2

\* Bounds of the inputs.
MaxSectors == 2

\* How many returns more than the minimum a sector series may have.
Slack == 4

SECTOR_ETFS == <<"XLK", "XLF", "XLE", "XLV">>

BENCHMARK_SYMBOL == "SPY"

(***************************************************************************)
(* Floating point scalars of the training loop: a rational num/den, NaN or *)
(* +infinity.                                                              *)
(***************************************************************************)
F(n, d) == [nan |-> FALSE, inf |-> FALSE, num |-> n, den |-> d]

NAN == [nan |-> TRUE, inf |-> FALSE, num |-> 0, den |-> 1]

INFINITY == [nan |-> FALSE, inf |-> TRUE, num |-> 0, den |-> 1]

\* a + b on f64: NaN is absorbing.
FAdd(a, b) ==
    IF a.nan \/ b.nan THEN NAN
    ELSE IF a.inf \/ b.inf THEN INFINITY
    ELSE F(a.num * b.den + b.num * a.den, a.den * b.den)

\* a / n for a positive count n.
FDivCount(a, n) ==
    IF a.nan THEN NAN
    ELSE IF a.inf THEN INFINITY
    ELSE F(a.num, a.den * n)

\* a < b on f64: false whenever either side is NaN.
FLt(a, b) ==
    /\ ~a.nan
    /\ ~b.nan
    /\ ~a.inf
    /\ (b.inf \/ a.num * b.den < b.num * a.den)

\* a == b on f64 (NaN differs from everything, itself included).
FEq(a, b) ==
    /\ ~a.nan
    /\ ~b.nan
    /\ a.inf = b.inf
    /\ (~a.inf => a.num * b.den = b.num * a.den)

(***************************************************************************)
(* Symbolic feature values.  Every value is a record [k, s, a, b]:         *)
(*   ret  : return number a (= b) of series s, counted from 1 in the input *)
(*   vol  : rolling volatility of the returns a..b of series s             *)
(*   corr : the average cross-sector correlation of a sectors over the     *)
(*          trailing b returns                                             *)
(*   spread, slope : of the a-th emitted bond spread entry                 *)
(*   zero : the literal 0.0                                                *)
(***************************************************************************)
Val(k, s, a, b) == [k |-> k, s |-> s, a |-> a, b |-> b]

Zero == Val("zero", "", 0, 0)

Min(S) == CHOOSE x \in S : \A y \in S : x <= y

\* Variant: the leading n elements are kept.
TrailingTakesLeading(v, n) == SubSeq(v, 1, n)

\* v[v.len() - n ..]
Trailing(v, n) == SubSeq(v, Len(v) - n + 1, Len(v))

\* v.get(t).copied().unwrap_or(0.0), t counted from 0
GetOrZero(v, t) == IF t + 1 \in DOMAIN v THEN v[t + 1] ELSE Zero

\* Variant: the order is kept.
ReverseKeepsOrder(v) == v

\* v.iter().rev()
Reverse(v) == [i \in 1..Len(v) |-> v[Len(v) - i + 1]]

\* Concatenation of a sequence of sequences.
RECURSIVE Flatten(_)
Flatten(ss) == IF ss = <<>> THEN <<>> ELSE Head(ss) \o Flatten(Tail(ss))

(***************************************************************************)
(* Market data.  A series is given by its number of bars; its log returns  *)
(* are the symbolic values ret 1 .. ret (bars - 1).                        *)
(***************************************************************************)
log_returns(series) ==
    [i \in 1..(IF series.bars > 0 THEN series.bars - 1 ELSE 0) |->
        Val("ret", series.symbol, i, i)]

\* Variant: a window of one return is accepted.
rolling_volatility_accepts_window_one(returns, window) ==
    IF Len(returns) < window \/ window < 1
    THEN <<>>
    ELSE [j \in 1..(Len(returns) - window + 1) |->
            Val("vol", returns[j].s, returns[j].a, returns[j + window - 1].b)]

\* Variant: the last window is not emitted.
rolling_volatility_one_short(returns, window) ==
    IF Len(returns) < window \/ window < 2
    THEN <<>>
    ELSE [j \in 1..(Len(returns) - window) |->
            Val("vol", returns[j].s, returns[j].a, returns[j + window - 1].b)]

rolling_volatility(returns, window) ==
    IF Len(returns) < window \/ window < 2
    THEN <<>>
    ELSE [j \in 1..(Len(returns) - window + 1) |->
            Val("vol", returns[j].s, returns[j].a, returns[j + window - 1].b)]

\* One value per window of highs and lows; empty when the two series differ
\* in length, are shorter than the window, or the window is 0.
parkinson_volatility(highs, lows, window) ==
    IF Len(highs) # Len(lows) \/ Len(highs) < window \/ window < 1
    THEN <<>>
    ELSE [j \in 1..(Len(highs) - window + 1) |->
            Val("park", highs[j].s, highs[j].a, highs[j + window - 1].b)]

\* l.abs() > 1e-10 fails: the value is the literal 0.0 or as close to it.  A
\* symbolic volatility or return is taken to be farther from zero.
NearZero(v) == v.k = "zero"

\* The element 1.0 of a volatility ratio.
RatioOne == [one |-> TRUE, num |-> Zero, den |-> Zero]

\* if l.abs() > 1e-10 { s / l } else { 1.0 }
Ratio(sv, lv) == IF NearZero(lv) THEN RatioOne ELSE [one |-> FALSE, num |-> sv, den |-> lv]

\* Variant: the two series are aligned at their leading ends.
volatility_ratio_leading(short_vol, long_vol) ==
    LET len == Min({Len(short_vol), Len(long_vol)})
    IN  [i \in 1..len |-> Ratio(short_vol[i], long_vol[i])]

volatility_ratio(short_vol, long_vol) ==
    LET len == Min({Len(short_vol), Len(long_vol)})
        s_off == Len(short_vol) - len
        l_off == Len(long_vol) - len
    IN  [i \in 1..len |-> Ratio(short_vol[s_off + i], long_vol[l_off + i])]

compute_sector_volatility(symbol, returns, highs, lows, short_window, long_window) ==
    LET short_vol == rolling_volatility(returns, short_window)
        long_vol == rolling_volatility(returns, long_window)
        park_vol == parkinson_volatility(highs, lows, short_window)
        vol_rat == volatility_ratio(short_vol, long_vol)
        n == Len(long_vol)
        trim(v) == IF Len(v) >= n THEN Trailing(v, n) ELSE v
    IN  [symbol |-> symbol,
         short_window_vol |-> trim(short_vol),
         long_window_vol |-> long_vol,
         parkinson_vol |-> trim(park_vol),
         vol_ratio |-> vol_rat]

\* Variant: a missing 2Y rate is read as 0.0 instead of dropping the
\* observation.
RECURSIVE compute_term_spreads_zero_fills(_)
compute_term_spreads_zero_fills(rates) ==
    IF rates = <<>> THEN <<>>
    ELSE LET r == Head(rates)
             rest == compute_term_spreads_zero_fills(Tail(rates))
             y2 == IF r.has2 THEN r.year2 ELSE 0
         IN  IF r.date_ok /\ r.has10
             THEN <<[date |-> r.date,
                     spread_10y_2y |-> r.year10 - y2,
                     curve_slope |-> (IF r.has30 THEN r.year30 ELSE r.year10)
                                   - (IF r.has3m THEN r.month3 ELSE y2)]>>
                  \o rest
             ELSE rest

\* One BondSpread per observation that has a date, a 10Y and a 2Y rate.
RECURSIVE compute_term_spreads(_)
compute_term_spreads(rates) ==
    IF rates = <<>> THEN <<>>
    ELSE LET r == Head(rates)
             rest == compute_term_spreads(Tail(rates))
         IN  IF r.date_ok /\ r.has10 /\ r.has2
             THEN <<[date |-> r.date,
                     spread_10y_2y |-> r.year10 - r.year2,
                     curve_slope |-> (IF r.has30 THEN r.year30 ELSE r.year10)
                                   - (IF r.has3m THEN r.month3 ELSE r.year2)]>>
                  \o rest
             ELSE rest

\* Variant: a flat curve (10Y = 2Y) counts as inverted.
RECURSIVE detect_inversions_includes_flat(_)
detect_inversions_includes_flat(rates) ==
    IF rates = <<>> THEN <<>>
    ELSE LET r == Head(rates)
             rest == detect_inversions_includes_flat(Tail(rates))
         IN  IF r.date_ok /\ r.has10 /\ r.has2 /\ r.year10 <= r.year2
             THEN <<r.date>> \o rest
             ELSE rest

\* The dates of the observations that have a date, a 10Y and a 2Y rate
\* and whose 10Y rate is below the 2Y rate.
RECURSIVE detect_inversions(_)
detect_inversions(rates) ==
    IF rates = <<>> THEN <<>>
    ELSE LET r == Head(rates)
             rest == detect_inversions(Tail(rates))
         IN  IF r.date_ok /\ r.has10 /\ r.has2 /\ r.year10 < r.year2
             THEN <<r.date>> \o rest
             ELSE rest

\* Entries of a correlation matrix: the literals 0.0 and 1.0, and the
\* coefficient of two slices (itself 0.0 when their variance vanishes).
CorrZero == [k |-> "zero", x |-> <<>>, y |-> <<>>]

CorrOne == [k |-> "one", x |-> <<>>, y |-> <<>>]

pearson_correlation(a, b) ==
    LET n == Min({Len(a), Len(b)})
    IN  IF n < 2 THEN CorrZero
        ELSE [k |-> "pearson", x |-> SubSeq(a, 1, n), y |-> SubSeq(b, 1, n)]

\* Variant: every cell off the diagonal gets the coefficient of its own
\* (row, column) pair; nothing is mirrored.
compute_correlation_matrix_per_cell(symbols, returns) ==
    LET n == Len(symbols)
        min_len == IF returns = <<>> THEN 0
                   ELSE Min({Len(returns[i]) : i \in 1..Len(returns)})
    IN  IF min_len < 2
        THEN [symbols |-> symbols, matrix |-> [i \in 1..n |-> [j \in 1..n |-> CorrZero]]]
        ELSE LET aligned == [i \in 1..Len(returns) |-> Trailing(returns[i], min_len)]
             IN  [symbols |-> symbols,
                  matrix |-> [i \in 1..n |-> [j \in 1..n |->
                                IF i = j THEN CorrOne
                                ELSE pearson_correlation(aligned[i], aligned[j])]]]

compute_correlation_matrix(symbols, returns) ==
    LET n == Len(symbols)
        min_len == IF returns = <<>> THEN 0
                   ELSE Min({Len(returns[i]) : i \in 1..Len(returns)})
    IN  IF min_len < 2
        THEN [symbols |-> symbols, matrix |-> [i \in 1..n |-> [j \in 1..n |-> CorrZero]]]
        ELSE LET aligned == [i \in 1..Len(returns) |-> Trailing(returns[i], min_len)]
                 \* the coefficient computed in iteration (i, j) of the loops, i < j
                 corr(i, j) == pearson_correlation(aligned[i], aligned[j])
             IN  [symbols |-> symbols,
                  matrix |-> [i \in 1..n |-> [j \in 1..n |->
                                IF i = j THEN CorrOne
                                ELSE IF i < j THEN corr(i, j)
                                ELSE corr(j, i)]]]

\* The scalar the dataset builder derives from the correlation matrix of the
\* aligned returns: it depends on the sectors and on the aligned length only.
average_cross_correlation(aligned_returns) ==
    IF Len(aligned_returns) < 2 THEN Zero
    ELSE Val("corr", "", Len(aligned_returns), Len(aligned_returns[1]))

\* Variant: the target starts at the last row of the window.
target_range_from_last_row(end, forward, vol_len) ==
    LET target_end == IF end + forward < vol_len THEN end + forward ELSE vol_len
    IN  [j \in 1..(IF target_end > end - 1 THEN target_end - end + 1 ELSE 0) |-> end + j - 2]

\* target_start..target_end, the time indices (from 0) the target averages.
target_range(end, forward, vol_len) ==
    LET target_end == IF end + forward < vol_len THEN end + forward ELSE vol_len
    IN  [j \in 1..(IF target_end > end THEN target_end - end ELSE 0) |-> end + j - 1]

\* a.saturating_sub(b)
saturating_sub(a, b) == IF a >= b THEN a - b ELSE 0

\* Variant: the first length check does not count the long window.
build_dataset_without_long_window(data, lookback, forward) ==
    LET sector_returns == [i \in 1..Len(data.sectors) |-> log_returns(data.sectors[i])]
        n_sectors == Len(sector_returns)
    IN
    IF n_sectors = 0 THEN [samples |-> <<>>]
    ELSE
    LET min_len == Min({Len(sector_returns[i]) : i \in 1..n_sectors}) IN
    IF min_len < lookback + forward THEN [samples |-> <<>>]
    ELSE
    LET aligned_returns ==
            [i \in 1..n_sectors |-> Trailing(sector_returns[i], min_len)]
        sector_vols ==
            [i \in 1..n_sectors |->
                rolling_volatility(aligned_returns[i], SHORT_VOL_WINDOW)]
        vol_len == Min({Len(sector_vols[i]) : i \in 1..n_sectors})
    IN
    IF vol_len < lookback + forward THEN [samples |-> <<>>]
    ELSE
    LET bond_spreads == compute_term_spreads(data.treasury_rates)
        avg_corr == average_cross_correlation(aligned_returns)
        aligned_vols == [i \in 1..n_sectors |-> Trailing(sector_vols[i], vol_len)]
        aligned_rets == [i \in 1..n_sectors |-> Trailing(aligned_returns[i], vol_len)]
        bench_present == data.benchmark.present
        bench_vol == rolling_volatility(log_returns(data.benchmark), SHORT_VOL_WINDOW)
        bench_v == IF Len(bench_vol) >= vol_len
                   THEN Trailing(bench_vol, vol_len)
                   ELSE [i \in 1..vol_len |-> Zero]
        spread_vals ==
            IF Len(bond_spreads) >= vol_len
            THEN LET rv == Reverse(SubSeq(bond_spreads, 1, vol_len))
                 IN  [i \in 1..vol_len |->
                        Val("spread", "", rv[i].date, rv[i].spread_10y_2y)]
            ELSE [i \in 1..vol_len |-> Zero]
        slope_vals ==
            IF Len(bond_spreads) >= vol_len
            THEN LET rv == Reverse(SubSeq(bond_spreads, 1, vol_len))
                 IN  [i \in 1..vol_len |->
                        Val("slope", "", rv[i].date, rv[i].curve_slope)]
            ELSE [i \in 1..vol_len |-> Zero]
        effective_len == IF vol_len >= forward THEN vol_len - forward ELSE 0
        pad == [i \in 1..(IF n_sectors < SECTOR_SLOTS
                          THEN SECTOR_SLOTS - n_sectors ELSE 0) |-> Zero]
        Row(t) ==
            [i \in 1..n_sectors |-> GetOrZero(aligned_vols[i], t)]
            \o pad
            \o [i \in 1..n_sectors |-> GetOrZero(aligned_rets[i], t)]
            \o pad
            \o <<avg_corr,
                 GetOrZero(spread_vals, t),
                 GetOrZero(slope_vals, t),
                 IF bench_present THEN GetOrZero(bench_v, t) ELSE Zero>>
        Target(end) ==
            LET target_end == IF end + forward < vol_len THEN end + forward ELSE vol_len
                terms == Flatten([i \in 1..n_sectors |->
                            [j \in 1..(IF target_end > end THEN target_end - end ELSE 0) |->
                                aligned_vols[i][end + j]]])
            IN  [zero |-> Len(terms) = 0, mean_of |-> terms]
        Sample(start) ==
            [features |-> [k \in 1..lookback |-> Row(start + k - 1)],
             target |-> Target(start + lookback)]
    IN
    IF effective_len <= lookback THEN [samples |-> <<>>]
    ELSE [samples |-> [i \in 1..(effective_len - lookback) |-> Sample(i - 1)]]

build_dataset(data, lookback, forward) ==
    LET sector_returns == [i \in 1..Len(data.sectors) |-> log_returns(data.sectors[i])]
        n_sectors == Len(sector_returns)
    IN
    IF n_sectors = 0 THEN [samples |-> <<>>]
    ELSE
    LET min_len == Min({Len(sector_returns[i]) : i \in 1..n_sectors}) IN
    IF min_len < lookback + forward + LONG_VOL_WINDOW THEN [samples |-> <<>>]
    ELSE
    LET aligned_returns ==
            [i \in 1..n_sectors |-> Trailing(sector_returns[i], min_len)]
        sector_vols ==
            [i \in 1..n_sectors |->
                rolling_volatility(aligned_returns[i], SHORT_VOL_WINDOW)]
        vol_len == Min({Len(sector_vols[i]) : i \in 1..n_sectors})
    IN
    IF vol_len < lookback + forward THEN [samples |-> <<>>]
    ELSE
    LET bond_spreads == compute_term_spreads(data.treasury_rates)
        avg_corr == average_cross_correlation(aligned_returns)
        aligned_vols == [i \in 1..n_sectors |-> Trailing(sector_vols[i], vol_len)]
        aligned_rets == [i \in 1..n_sectors |-> Trailing(aligned_returns[i], vol_len)]
        bench_present == data.benchmark.present
        bench_vol == rolling_volatility(log_returns(data.benchmark), SHORT_VOL_WINDOW)
        bench_v == IF Len(bench_vol) >= vol_len
                   THEN Trailing(bench_vol, vol_len)
                   ELSE [i \in 1..vol_len |-> Zero]
        spread_vals ==
            IF Len(bond_spreads) >= vol_len
            THEN LET rv == Reverse(SubSeq(bond_spreads, 1, vol_len))
                 IN  [i \in 1..vol_len |->
                        Val("spread", "", rv[i].date, rv[i].spread_10y_2y)]
            ELSE [i \in 1..vol_len |-> Zero]
        slope_vals ==
            IF Len(bond_spreads) >= vol_len
            THEN LET rv == Reverse(SubSeq(bond_spreads, 1, vol_len))
                 IN  [i \in 1..vol_len |->
                        Val("slope", "", rv[i].date, rv[i].curve_slope)]
            ELSE [i \in 1..vol_len |-> Zero]
        effective_len == saturating_sub(vol_len, forward)
        pad == [i \in 1..(IF n_sectors < SECTOR_SLOTS
                          THEN SECTOR_SLOTS - n_sectors ELSE 0) |-> Zero]
        Row(t) ==
            [i \in 1..n_sectors |-> GetOrZero(aligned_vols[i], t)]
            \o pad
            \o [i \in 1..n_sectors |-> GetOrZero(aligned_rets[i], t)]
            \o pad
            \o <<avg_corr,
                 GetOrZero(spread_vals, t),
                 GetOrZero(slope_vals, t),
                 IF bench_present THEN GetOrZero(bench_v, t) ELSE Zero>>
        Target(end) ==
            LET range == target_range(end, forward, vol_len)
                terms == Flatten([i \in 1..n_sectors |->
                            [j \in 1..Len(range) |-> aligned_vols[i][range[j] + 1]]])
            IN  [zero |-> Len(terms) = 0, mean_of |-> terms]
        Sample(start) ==
            [features |-> [k \in 1..lookback |-> Row(start + k - 1)],
             target |-> Target(start + lookback)]
    IN
    IF effective_len <= lookback THEN [samples |-> <<>>]
    ELSE [samples |-> [i \in 1..(effective_len - lookback) |-> Sample(i - 1)]]

\* Every slice build_dataset takes on its way lies within its series:
\* r[r.len() - min_len..], v[v.len() - vol_len..], r[r.len() - vol_len..],
\* bv[bv.len() - vol_len..], bond_spreads[..vol_len], the slices of the
\* correlation matrix, and the window range 0..(effective_len - lookback).
build_dataset_in_range(data, lookback, forward) ==
    LET sector_returns == [i \in 1..Len(data.sectors) |-> log_returns(data.sectors[i])]
        n_sectors == Len(sector_returns)
    IN
    IF n_sectors = 0 THEN TRUE
    ELSE
    LET min_len == Min({Len(sector_returns[i]) : i \in 1..n_sectors}) IN
    IF min_len < lookback + forward + LONG_VOL_WINDOW THEN TRUE
    ELSE
    LET aligned_returns ==
            [i \in 1..n_sectors |-> Trailing(sector_returns[i], min_len)]
        sector_vols ==
            [i \in 1..n_sectors |->
                rolling_volatility(aligned_returns[i], SHORT_VOL_WINDOW)]
        vol_len == Min({Len(sector_vols[i]) : i \in 1..n_sectors})
        returns_ok == \A i \in 1..n_sectors : min_len <= Len(sector_returns[i])
    IN
    IF vol_len < lookback + forward THEN returns_ok
    ELSE
    LET bond_spreads == compute_term_spreads(data.treasury_rates)
        bench_vol == rolling_volatility(log_returns(data.benchmark), SHORT_VOL_WINDOW)
        effective_len == IF vol_len >= forward THEN vol_len - forward ELSE 0
    IN  /\ returns_ok
        \* compute_correlation_matrix: aligned[i] for every symbol
        /\ Len(aligned_returns) = Len(data.sectors)
        /\ \A i \in 1..n_sectors :
              /\ vol_len <= Len(sector_vols[i])
              /\ vol_len <= Len(aligned_returns[i])
        /\ (data.benchmark.present /\ Len(bench_vol) >= vol_len) =>
              Len(bench_vol) - vol_len >= 0
        /\ Len(bond_spreads) >= vol_len => vol_len <= Len(bond_spreads)
        /\ effective_len > lookback => effective_len - lookback >= 0



(***************************************************************************)
(* TrainingStatus (data::models), one record shape for the four variants.  *)

(***************************************************************************)
(* The configured sizes (src/src/config.rs) and the length arithmetic of   *)
(* build_dataset and train() on its own: how many samples a shortest       *)
(* return series of a given length yields, and which size check of train() *)
(* rejects a dataset of a given size.                                      *)
(***************************************************************************)
CONFIG_SHORT_VOL_WINDOW == 21

CONFIG_LONG_VOL_WINDOW == 63

CONFIG_NN_LOOKBACK_DAYS == 60

CONFIG_NN_FORWARD_DAYS == 5

CONFIG_NN_BATCH_SIZE == 32

\* rolling_volatility(returns, window).len()
rolling_volatility_len(len, window) ==
    IF len < window \/ window < 2 THEN 0 ELSE len - window + 1

\* Variant: the first check asks only for lookback + forward returns.
sample_count_without_long_window(min_len, short, long, lookback, forward) ==
    IF min_len < lookback + forward THEN 0
    ELSE LET vol_len == rolling_volatility_len(min_len, short) IN
         IF vol_len < lookback + forward THEN 0
         ELSE LET effective_len == saturating_sub(vol_len, forward) IN
              IF effective_len <= lookback THEN 0 ELSE effective_len - lookback

\* build_dataset(..).samples.len() for at least one sector, the shortest
\* return series having min_len returns.
sample_count(min_len, short, long, lookback, forward) ==
    IF min_len < lookback + forward + long THEN 0
    ELSE LET vol_len == rolling_volatility_len(min_len, short) IN
         IF vol_len < lookback + forward THEN 0
         ELSE LET effective_len == saturating_sub(vol_len, forward) IN
              IF effective_len <= lookback THEN 0 ELSE effective_len - lookback

\* The Error train() ends in for a dataset of `total` samples, if any.
train_checks(total, batch_size) ==
    IF total = 0 THEN "NotEnoughData"
    ELSE IF (total * 4) \div 5 < batch_size \/ total - (total * 4) \div 5 < 1
    THEN "DatasetTooSmall"
    ELSE "none"

(***************************************************************************)
\* An error message: its text and the sample count formatted into it (0 if none).
Msg(text, n) == [text |-> text, n |-> n]

Idle ==
    [tag |-> "Idle", epoch |-> 0, total_epochs |-> 0, loss |-> NAN, msg |-> Msg("", 0)]

Training(e, total, l) ==
    [tag |-> "Training", epoch |-> e, total_epochs |-> total, loss |-> l,
     msg |-> Msg("", 0)]

Complete(final_loss) ==
    [tag |-> "Complete", epoch |-> 0, total_epochs |-> 0, loss |-> final_loss,
     msg |-> Msg("", 0)]

Error(m) == [tag |-> "Error", epoch |-> 0, total_epochs |-> 0, loss |-> NAN, msg |-> m]

NotEnoughData ==
    Msg("Not enough data to build training dataset. Load more market data.", 0)

DatasetTooSmall(total) == Msg("Dataset too small ({} samples). Need more data.", total)

(***************************************************************************)
(* State.                                                                  *)
(***************************************************************************)
VARIABLES
    market_data,        \* the MarketData the run was started on (immutable)
    status,             \* TrainingProgress.status     (shared cell)
    losses,             \* TrainingProgress.losses     (shared cell)
    predictions,        \* TrainingProgress.predictions (shared cell)
    locks,              \* holder of each cell's mutex: "none", "worker" or "ui"
    pc,                 \* position of the worker thread inside train()
    st_arg,             \* argument of the set_status call in progress
    st_ret,             \* where train() continues after that set_status call
    dataset,            \* train(): dataset
    train_dataset,      \* train(): train_dataset.samples
    val_samples,        \* train(): _val_samples
    model,              \* train(): model, as the number of optimizer steps taken
    epoch,              \* train(): loop variable of the epoch loop
    epoch_loss,         \* train(): epoch_loss
    batch_count,        \* train(): batch_count
    remaining,          \* indices of train_dataset the dataloader has not yet served this epoch
    avg_loss,           \* train(): avg_loss of the epoch that just ended
    best_loss,          \* train(): best_loss
    new_predictions,    \* generate_predictions(): the local list `predictions`
    used,               \* samples that took part in an optimizer step (history)
    log,                \* the worker's writes and optimizer steps, in order (history)
    ui_pc,              \* position of the UI thread inside render()
    training_status,    \* AppState.training_status
    training_losses,    \* AppState.training_losses
    nn_predictions,     \* AppState.nn_predictions
    last_epoch_read,    \* epoch of the last Training status render() read, -1 if none (history)
    call,               \* the analysis function applied on its own, with its arguments
    ret,                \* <<>> until that call returns, then <<its result>>
    training_progress,  \* AppState.training_progress: "Some" handle on the cells above, or "None"
    started,            \* number of start_training() calls so far (history)
    orphans             \* workers still running on cells the application no longer holds

shared == <<status, losses, predictions>>

worker_locals ==
    <<dataset, train_dataset, val_samples, model, epoch, epoch_loss, batch_count,
      remaining, avg_loss, best_loss, new_predictions, used>>

ui_vars == <<ui_pc, training_status, training_losses, nn_predictions, last_epoch_read>>

analysis_vars == <<call, ret>>

session_vars == <<training_progress, started, orphans>>

\* The state of a training run and of its observer.
run_vars ==
    <<market_data, status, losses, predictions, locks, pc, st_arg, st_ret, dataset,
      train_dataset, val_samples, model, epoch, epoch_loss, batch_count, remaining,
      avg_loss, best_loss, new_predictions, used, log, ui_pc, training_status,
      training_losses, nn_predictions, last_epoch_read, training_progress, started, orphans>>

vars ==
    <<call, ret, training_progress, started, orphans, market_data, status, losses, predictions, locks, pc, st_arg, st_ret, dataset,
      train_dataset, val_samples, model, epoch, epoch_loss, batch_count, remaining,
      avg_loss, best_loss, new_predictions, used, log, ui_pc, training_status,
      training_losses, nn_predictions, last_epoch_read>>

(***************************************************************************)
(* Inputs: up to MaxSectors sectors, each with between one return too few  *)
(* and Slack returns more than build_dataset's minimum.                    *)
(***************************************************************************)
MinReturns == NN_LOOKBACK_DAYS + NN_FORWARD_DAYS + LONG_VOL_WINDOW

BarCounts == {MinReturns + d : d \in 0..(Slack + 1)}

MaxBars == MinReturns + Slack + 1

NoBenchmark == [present |-> FALSE, symbol |-> BENCHMARK_SYMBOL, bars |-> 0]

\* No sector at all, or MaxSectors sectors of which the first has any of the bar
\* counts and the others the longest history.
SectorLists ==
    {<<>>} \cup
    {[i \in 1..MaxSectors |-> IF i = 1 THEN b ELSE MaxBars] : b \in BarCounts}

MarketDataOf(bars) ==
    [sectors |-> [i \in 1..Len(bars) |-> [symbol |-> SECTOR_ETFS[i], bars |-> bars[i]]],
     benchmark |-> NoBenchmark,
     treasury_rates |-> <<>>]

TrainInputs == {MarketDataOf(b) : b \in SectorLists}

\* build_dataset is a pure function of the market data; train() and
\* generate_predictions() both call it with the configured lookback and
\* forward horizon.  Its results for the inputs above, computed once.
BuiltDatasets ==
    [data \in TrainInputs |-> build_dataset(data, NN_LOOKBACK_DAYS, NN_FORWARD_DAYS)]

\* The per-batch loss is a float the opaque model decides: a lower value, a
\* higher value, or NaN (train() itself falls back to NaN for an unreadable loss).
LossVals == {F(1, 1), F(2, 1), NAN}

\* An entry of the worker's log: a write to a cell ("status", "loss",
\* "predictions") or an optimizer step ("batch"), the loop variable at that
\* time, the status written (if any) and the loss pushed (if any).
LogEntry(ev, e, st, l) == [ev |-> ev, epoch |-> e, st |-> st, loss |-> l]

(***************************************************************************)
(* Init: the state start_training() leaves behind: a fresh TrainingProgress,*)
(* the displayed status set to Training{0}, the displayed lists cleared,   *)
(* and the worker thread spawned but not yet running.                      *)
(***************************************************************************)
\* No analysis function is applied on its own.
NoCall == [fn |-> "none"]

Init ==
    /\ call = NoCall
    /\ ret = <<>>
    /\ training_progress = "Some"
    /\ started = 1
    /\ orphans = 0
    /\ market_data \in TrainInputs
    /\ status = Idle
    /\ losses = <<>>
    /\ predictions = <<>>
    /\ locks = [status |-> "none", losses |-> "none", predictions |-> "none"]
    /\ pc = "spawned"
    /\ st_arg = Idle
    /\ st_ret = "spawned"
    /\ dataset = [samples |-> <<>>]
    /\ train_dataset = <<>>
    /\ val_samples = <<>>
    /\ model = 0
    /\ epoch = 0
    /\ epoch_loss = F(0, 1)
    /\ batch_count = 0
    /\ remaining = {}
    /\ avg_loss = NAN
    /\ best_loss = INFINITY
    /\ new_predictions = <<>>
    /\ used = {}
    /\ log = <<>>
    /\ ui_pc = "frame"
    /\ training_status = Training(0, NN_EPOCHS, NAN)
    /\ training_losses = <<>>
    /\ nn_predictions = <<>>
    /\ last_epoch_read = -1

(***************************************************************************)
(* The worker: train().                                                    *)
(***************************************************************************)
\* Variant: the split point is rounded up instead of truncated.
TrainSizeRoundedUp(total) == (total * 4 + 4) \div 5

\* (total as f64 * 0.8) as usize
TrainSize(total) == (total * 4) \div 5

\* Variant: the training portion is the trailing train_size samples.
TrainSplitTakesTrailing(samples, train_size) ==
    SubSeq(samples, Len(samples) - train_size + 1, Len(samples))

\* dataset.samples[..train_size]
TrainSplit(samples, train_size) == SubSeq(samples, 1, train_size)

\* dataset.samples[train_size..]
ValSplit(samples, train_size) == SubSeq(samples, train_size + 1, Len(samples))

\* The batches a shuffling dataloader may serve next from the unserved indices.
NextBatches(rest, batch_size) ==
    {b \in SUBSET rest :
        Cardinality(b) = (IF Cardinality(rest) < batch_size
                          THEN Cardinality(rest) ELSE batch_size)}

\* Variant: the first publish already counts one epoch.
InitialStatusCountsFromOne == Training(1, NN_EPOCHS, NAN)

\* The first status train() publishes.
InitialStatus == Training(0, NN_EPOCHS, NAN)

\* Variant: the loop variable is published as it is.
EpochStatusOffByOne(e, avg) == Training(e, NN_EPOCHS, avg)

\* Variant: the epochs still to run are published.
EpochStatusCountsDown(e, avg) == Training(NN_EPOCHS - e, NN_EPOCHS, avg)

\* The status train() publishes after the epoch with loop variable e.
EpochStatus(e, avg) == Training(e + 1, NN_EPOCHS, avg)

\* Variant: only an empty training portion is rejected.
TooSmallOnlyWhenEmpty(total, train_size) == train_size < 1 \/ total - train_size < 1

\* train_size < NN_BATCH_SIZE || total - train_size < 1
TooSmall(total, train_size) == train_size < NN_BATCH_SIZE \/ total - train_size < 1

\* train() entry: set_status(Training{epoch: 0, ..}).
TrainBegin ==
    /\ pc = "spawned"
    /\ st_arg' = InitialStatus
    /\ st_ret' = "build"
    /\ pc' = "status_lock"
    /\ UNCHANGED <<call, ret, session_vars, market_data, shared, locks, worker_locals, log, ui_vars>>

\* set_status(): progress.status.lock()
SetStatusLock ==
    /\ pc = "status_lock"
    /\ locks.status = "none"
    /\ locks' = [locks EXCEPT !.status = "worker"]
    /\ pc' = "status_write"
    /\ UNCHANGED <<call, ret, session_vars, market_data, shared, st_arg, st_ret, worker_locals, log, ui_vars>>

\* Variant: the status is stored but the guard is never dropped.
SetStatusWriteKeepsGuard ==
    /\ pc = "status_write"
    /\ status' = st_arg
    /\ log' = Append(log, LogEntry("status", epoch, st_arg, NAN))
    /\ pc' = st_ret
    /\ UNCHANGED <<call, ret, session_vars, market_data, losses, predictions, locks, st_arg, st_ret,
                   worker_locals, ui_vars>>

\* set_status(): *s = status, and the guard is dropped.
SetStatusWrite ==
    /\ pc = "status_write"
    /\ status' = st_arg
    /\ locks' = [locks EXCEPT !.status = "none"]
    /\ log' = Append(log, LogEntry("status", epoch, st_arg, NAN))
    /\ pc' = st_ret
    /\ UNCHANGED <<call, ret, session_vars, market_data, losses, predictions, st_arg, st_ret, worker_locals, ui_vars>>

\* build_dataset, the two size checks, the chronological split, model and optimizer.
BuildDataset ==
    /\ pc = "build"
    /\ LET ds == BuiltDatasets[market_data]
           total == Len(ds.samples)
           train_size == TrainSize(total)
       IN  /\ dataset' = ds
           /\ IF ds.samples = <<>>
              THEN /\ st_arg' = Error(NotEnoughData)
                   /\ st_ret' = "done"
                   /\ pc' = "status_lock"
                   /\ UNCHANGED <<train_dataset, val_samples, best_loss, epoch>>
              ELSE IF TooSmall(total, train_size)
              THEN /\ st_arg' = Error(DatasetTooSmall(total))
                   /\ st_ret' = "done"
                   /\ pc' = "status_lock"
                   /\ UNCHANGED <<train_dataset, val_samples, best_loss, epoch>>
              ELSE /\ train_dataset' = TrainSplit(ds.samples, train_size)
                   /\ val_samples' = ValSplit(ds.samples, train_size)
                   /\ best_loss' = INFINITY
                   /\ epoch' = 0
                   /\ pc' = "epoch_head"
                   /\ UNCHANGED <<st_arg, st_ret>>
    /\ UNCHANGED <<call, ret, session_vars, market_data, shared, locks, model, epoch_loss, batch_count, remaining,
                   avg_loss, new_predictions, used, log, ui_vars>>

\* The value of the loop variable at the loop head: 0 on entry, one more than
\* in the iteration that just ended otherwise.
LoopVar == IF pc = "epoch_next" THEN epoch + 1 ELSE epoch

\* for epoch in 0..NN_EPOCHS: a new pass of the dataloader.
EpochBegin ==
    /\ pc \in {"epoch_head", "epoch_next"}
    /\ LoopVar < NN_EPOCHS
    /\ epoch' = LoopVar
    /\ epoch_loss' = F(0, 1)
    /\ batch_count' = 0
    /\ remaining' = 1..Len(train_dataset)
    /\ pc' = "batch"
    /\ UNCHANGED <<call, ret, session_vars, market_data, shared, locks, st_arg, st_ret, dataset, train_dataset,
                   val_samples, model, avg_loss, best_loss, new_predictions, used,
                   log, ui_vars>>

\* One mini-batch: forward, loss, backward, optimizer step.
TrainBatch ==
    /\ pc = "batch"
    /\ remaining # {}
    /\ \E b \in NextBatches(remaining, NN_BATCH_SIZE), loss_scalar \in LossVals :
        /\ remaining' = remaining \ b
        /\ used' = used \cup {train_dataset[i] : i \in b}
        /\ model' = model + 1
        /\ epoch_loss' = FAdd(epoch_loss, loss_scalar)
        /\ batch_count' = batch_count + 1
    /\ log' = Append(log, LogEntry("batch", epoch, Idle, NAN))
    /\ UNCHANGED <<call, ret, session_vars, market_data, shared, locks, pc, st_arg, st_ret, dataset, train_dataset,
                   val_samples, epoch, avg_loss, best_loss, new_predictions, ui_vars>>

\* avg_loss of the epoch that ended
AvgLoss(sum, count) == IF count > 0 THEN FDivCount(sum, count) ELSE NAN

\* if avg_loss < best_loss { best_loss = avg_loss }
TrackBest(avg, best) == IF FLt(avg, best) THEN avg ELSE best

\* After the last batch: avg_loss, best_loss, and progress.losses.lock().
LossesLock ==
    /\ pc = "batch"
    /\ remaining = {}
    /\ locks.losses = "none"
    /\ avg_loss' = AvgLoss(epoch_loss, batch_count)
    /\ best_loss' = TrackBest(AvgLoss(epoch_loss, batch_count), best_loss)
    /\ locks' = [locks EXCEPT !.losses = "worker"]
    /\ pc' = "losses_push"
    /\ UNCHANGED <<call, ret, session_vars, market_data, shared, st_arg, st_ret, dataset, train_dataset,
                   val_samples, model, epoch, epoch_loss, batch_count, remaining,
                   new_predictions, used, log, ui_vars>>

\* Variant: the guard is dropped without the push.
LossesPushSkipsAppend ==
    /\ pc = "losses_push"
    /\ locks' = [locks EXCEPT !.losses = "none"]
    /\ st_arg' = EpochStatus(epoch, avg_loss)
    /\ st_ret' = "epoch_next"
    /\ pc' = "status_lock"
    /\ UNCHANGED <<call, ret, session_vars, market_data, shared, worker_locals, log, ui_vars>>

\* Variant: the history is replaced by the newest loss alone.
LossesPushOverwrites ==
    /\ pc = "losses_push"
    /\ losses' = <<avg_loss>>
    /\ locks' = [locks EXCEPT !.losses = "none"]
    /\ log' = Append(log, LogEntry("loss", epoch, Idle, avg_loss))
    /\ st_arg' = EpochStatus(epoch, avg_loss)
    /\ st_ret' = "epoch_next"
    /\ pc' = "status_lock"
    /\ UNCHANGED <<call, ret, session_vars, market_data, status, predictions, worker_locals, ui_vars>>

\* losses.push(avg_loss), the guard is dropped, then set_status(Training{epoch + 1, ..})
\* is called; the loop variable advances at the loop head, after that call.
LossesPush ==
    /\ pc = "losses_push"
    /\ losses' = Append(losses, avg_loss)
    /\ locks' = [locks EXCEPT !.losses = "none"]
    /\ log' = Append(log, LogEntry("loss", epoch, Idle, avg_loss))
    /\ st_arg' = EpochStatus(epoch, avg_loss)
    /\ st_ret' = "epoch_next"
    /\ pc' = "status_lock"
    /\ UNCHANGED <<call, ret, session_vars, market_data, status, predictions, worker_locals, ui_vars>>

\* model.forward(input): the output of the model after `m` optimizer steps on `input`.
Forward(m, input) == [k |-> "out", model |-> m, input |-> input]

\* Variant: the forward pass runs on the first sample of the dataset.
PredictionListFromFirstSample(m, data, ds) ==
    LET first_sample == ds.samples[1]
        predicted_vol == Forward(m, first_sample.features)
    IN  [i \in 1..Len(data.sectors) |->
            [symbol |-> data.sectors[i].symbol, value |-> predicted_vol]]

\* The list generate_predictions builds: one entry per sector, all with the
\* output for the last sample of the dataset.
PredictionList(m, data, ds) ==
    LET last_sample == ds.samples[Len(ds.samples)]
        predicted_vol == Forward(m, last_sample.features)
    IN  [i \in 1..Len(data.sectors) |->
            [symbol |-> data.sectors[i].symbol, value |-> predicted_vol]]

\* Loop exit: generate_predictions() up to the lock of the predictions cell.
GeneratePredictions ==
    /\ pc \in {"epoch_head", "epoch_next"}
    /\ LoopVar >= NN_EPOCHS
    /\ epoch' = LoopVar
    /\ LET ds == BuiltDatasets[market_data]
       IN  IF ds.samples # <<>>
           THEN /\ new_predictions' = PredictionList(model, market_data, ds)
                /\ pc' = "predictions_lock"
                /\ UNCHANGED <<st_arg, st_ret>>
           ELSE /\ st_arg' = Complete(best_loss)
                /\ st_ret' = "done"
                /\ pc' = "status_lock"
                /\ UNCHANGED new_predictions
    /\ UNCHANGED <<call, ret, session_vars, market_data, shared, locks, dataset, train_dataset, val_samples, model,
                   epoch_loss, batch_count, remaining, avg_loss, best_loss, used,
                   log, ui_vars>>

\* progress.predictions.lock()
PredictionsLock ==
    /\ pc = "predictions_lock"
    /\ locks.predictions = "none"
    /\ locks' = [locks EXCEPT !.predictions = "worker"]
    /\ pc' = "predictions_write"
    /\ UNCHANGED <<call, ret, session_vars, market_data, shared, st_arg, st_ret, worker_locals, log, ui_vars>>

\* Variant: the guard is dropped without storing the list.
PredictionsWriteKeepsOld ==
    /\ pc = "predictions_write"
    /\ locks' = [locks EXCEPT !.predictions = "none"]
    /\ log' = Append(log, LogEntry("predictions", epoch, Idle, NAN))
    /\ st_arg' = Complete(best_loss)
    /\ st_ret' = "done"
    /\ pc' = "status_lock"
    /\ UNCHANGED <<call, ret, session_vars, market_data, shared, worker_locals, ui_vars>>

\* *preds = predictions, the guard is dropped, and train() calls
\* set_status(Complete{final_loss: best_loss}).
PredictionsWrite ==
    /\ pc = "predictions_write"
    /\ predictions' = new_predictions
    /\ locks' = [locks EXCEPT !.predictions = "none"]
    /\ log' = Append(log, LogEntry("predictions", epoch, Idle, NAN))
    /\ st_arg' = Complete(best_loss)
    /\ st_ret' = "done"
    /\ pc' = "status_lock"
    /\ UNCHANGED <<call, ret, session_vars, market_data, status, losses, worker_locals, ui_vars>>

WorkerNext ==
    \/ TrainBegin
    \/ SetStatusLock
    \/ SetStatusWrite
    \/ BuildDataset
    \/ EpochBegin
    \/ TrainBatch
    \/ LossesLock
    \/ LossesPush
    \/ GeneratePredictions
    \/ PredictionsLock
    \/ PredictionsWrite

(***************************************************************************)
(* The observer: the poll at the top of render().                          *)
(***************************************************************************)
worker_vars ==
    <<pc, st_arg, st_ret, dataset, train_dataset, val_samples, model, epoch, epoch_loss,
      batch_count, remaining, avg_loss, best_loss, new_predictions, used, log>>

\* progress.status.lock()
RenderStatusLock ==
    /\ ui_pc = "frame"
    /\ locks.status = "none"
    /\ locks' = [locks EXCEPT !.status = "ui"]
    /\ ui_pc' = "status_read"
    /\ UNCHANGED <<call, ret, session_vars, market_data, shared, worker_vars, training_status, training_losses,
                   nn_predictions, last_epoch_read>>

\* Variant: the status guard stays alive for the rest of the poll.
RenderStatusReadKeepsGuard ==
    /\ ui_pc = "status_read"
    /\ training_status' = status
    /\ last_epoch_read' = IF status.tag = "Training" THEN status.epoch ELSE last_epoch_read
    /\ ui_pc' = "losses_lock"
    /\ UNCHANGED <<call, ret, session_vars, market_data, shared, locks, worker_vars, training_losses,
                   nn_predictions>>

\* state.training_status = status.clone()
RenderStatusRead ==
    /\ ui_pc = "status_read"
    /\ training_status' = status
    /\ last_epoch_read' = IF status.tag = "Training" THEN status.epoch ELSE last_epoch_read
    /\ locks' = [locks EXCEPT !.status = "none"]
    /\ ui_pc' = "losses_lock"
    /\ UNCHANGED <<call, ret, session_vars, market_data, shared, worker_vars, training_losses, nn_predictions>>

\* progress.losses.lock()
RenderLossesLock ==
    /\ ui_pc = "losses_lock"
    /\ locks.losses = "none"
    /\ locks' = [locks EXCEPT !.losses = "ui"]
    /\ ui_pc' = "losses_read"
    /\ UNCHANGED <<call, ret, session_vars, market_data, shared, worker_vars, training_status, training_losses,
                   nn_predictions, last_epoch_read>>

\* state.training_losses = losses.clone()
RenderLossesRead ==
    /\ ui_pc = "losses_read"
    /\ training_losses' = losses
    /\ locks' = [locks EXCEPT !.losses = "none"]
    /\ ui_pc' = "predictions_lock"
    /\ UNCHANGED <<call, ret, session_vars, market_data, shared, worker_vars, training_status, nn_predictions,
                   last_epoch_read>>

\* progress.predictions.lock()
RenderPredictionsLock ==
    /\ ui_pc = "predictions_lock"
    /\ locks.predictions = "none"
    /\ locks' = [locks EXCEPT !.predictions = "ui"]
    /\ ui_pc' = "predictions_read"
    /\ UNCHANGED <<call, ret, session_vars, market_data, shared, worker_vars, training_status, training_losses,
                   nn_predictions, last_epoch_read>>

\* state.nn_predictions = preds.clone(); the poll is over and the frame is drawn.
RenderPredictionsRead ==
    /\ ui_pc = "predictions_read"
    /\ nn_predictions' = predictions
    /\ locks' = [locks EXCEPT !.predictions = "none"]
    /\ ui_pc' = "frame"
    /\ UNCHANGED <<call, ret, session_vars, market_data, shared, worker_vars, training_status, training_losses,
                   last_epoch_read>>

ObserverNext ==
    \/ RenderStatusLock
    \/ RenderStatusRead
    \/ RenderLossesLock
    \/ RenderLossesRead
    \/ RenderPredictionsLock
    \/ RenderPredictionsRead

Next == WorkerNext \/ ObserverNext

Spec == Init /\ [][Next]_vars

\* The runs that go through their epochs: the dataset passes both size checks.
PollingRunInit ==
    /\ Init
    /\ LET total == Len(BuiltDatasets[market_data].samples)
       IN  total > 0 /\ ~TooSmall(total, TrainSize(total))

\* Both threads are scheduled by the operating system, and the UI keeps
\* repainting: neither is starved of steps it can take.
FairSpec ==
    PollingRunInit /\ [][Next]_vars /\ WF_vars(WorkerNext) /\ WF_vars(ObserverNext)



(***************************************************************************)
(* The application session: the training controls of render() and          *)
(* start_training().  The worker and the poll are the ones above; a worker *)
(* whose cells the application has replaced keeps running on them, seen by *)
(* nobody, until train() returns.                                          *)
(***************************************************************************)
\* How many times training may be started in one session.
MaxStarts == 2

\* Market data of a session: none, the shortest history, and the shortest
\* history train() accepts.
Trains(data) ==
    LET total == Len(BuiltDatasets[data].samples)
    IN  total > 0 /\ ~TooSmall(total, TrainSize(total))

SessionBars(b) == [i \in 1..MaxSectors |-> IF i = 1 THEN b ELSE MaxBars]

SessionInputs ==
    {MarketDataOf(<<>>),
     MarketDataOf(SessionBars(Min(BarCounts))),
     MarketDataOf(SessionBars(Min({b \in BarCounts : Trains(MarketDataOf(SessionBars(b)))})))}

\* The application before any training: no handle, no worker, status Idle.
SessionInit ==
    /\ call = NoCall
    /\ ret = <<>>
    /\ market_data \in SessionInputs
    /\ training_progress = "None"
    /\ started = 0
    /\ orphans = 0
    /\ status = Idle
    /\ losses = <<>>
    /\ predictions = <<>>
    /\ locks = [status |-> "none", losses |-> "none", predictions |-> "none"]
    /\ pc = "done"
    /\ st_arg = Idle
    /\ st_ret = "done"
    /\ dataset = [samples |-> <<>>]
    /\ train_dataset = <<>>
    /\ val_samples = <<>>
    /\ model = 0
    /\ epoch = 0
    /\ epoch_loss = F(0, 1)
    /\ batch_count = 0
    /\ remaining = {}
    /\ avg_loss = NAN
    /\ best_loss = INFINITY
    /\ new_predictions = <<>>
    /\ used = {}
    /\ log = <<>>
    /\ ui_pc = "frame"
    /\ training_status = Idle
    /\ training_losses = <<>>
    /\ nn_predictions = <<>>
    /\ last_epoch_read = -1

\* The worker of the current handle has not returned from train().
WorkerRunning == pc # "done"

\* The Train button is drawn, and start_training() called, only while the
\* displayed status is Idle.
StartAllowed == training_status.tag = "Idle"

\* "Train Model" clicked: start_training().  A fresh TrainingProgress
\* replaces the handle, the displayed state is reset, a new worker is
\* spawned; a worker still running on the replaced cells is left to itself.
StartTraining ==
    /\ ui_pc = "frame"
    /\ market_data.sectors # <<>>
    /\ StartAllowed
    /\ started < MaxStarts
    /\ training_progress' = "Some"
    /\ started' = started + 1
    /\ orphans' = IF WorkerRunning THEN orphans + 1 ELSE orphans
    /\ status' = Idle
    /\ losses' = <<>>
    /\ predictions' = <<>>
    /\ locks' = [status |-> "none", losses |-> "none", predictions |-> "none"]
    /\ training_status' = Training(0, NN_EPOCHS, NAN)
    /\ training_losses' = <<>>
    /\ nn_predictions' = <<>>
    /\ last_epoch_read' = -1
    /\ pc' = "spawned"
    /\ st_arg' = Idle
    /\ st_ret' = "spawned"
    /\ dataset' = [samples |-> <<>>]
    /\ train_dataset' = <<>>
    /\ val_samples' = <<>>
    /\ model' = 0
    /\ epoch' = 0
    /\ epoch_loss' = F(0, 1)
    /\ batch_count' = 0
    /\ remaining' = {}
    /\ avg_loss' = NAN
    /\ best_loss' = INFINITY
    /\ new_predictions' = <<>>
    /\ used' = {}
    /\ log' = <<>>
    /\ UNCHANGED <<call, ret, market_data, ui_pc>>

\* "Retrain" clicked under a Complete status: back to Idle, lists cleared,
\* handle dropped.
Retrain ==
    /\ ui_pc = "frame"
    /\ market_data.sectors # <<>>
    /\ training_status.tag = "Complete"
    /\ training_status' = Idle
    /\ training_losses' = <<>>
    /\ nn_predictions' = <<>>
    /\ training_progress' = "None"
    /\ UNCHANGED <<call, ret, market_data, shared, locks, worker_vars, ui_pc, last_epoch_read,
                   started, orphans>>

\* "Retry" clicked under an Error status: back to Idle, handle dropped.
Retry ==
    /\ ui_pc = "frame"
    /\ market_data.sectors # <<>>
    /\ training_status.tag = "Error"
    /\ training_status' = Idle
    /\ training_progress' = "None"
    /\ UNCHANGED <<call, ret, market_data, shared, locks, worker_vars, ui_pc, training_losses,
                   nn_predictions, last_epoch_read, started, orphans>>

\* The poll of render() runs only while a handle is held.
SessionPoll ==
    /\ training_progress = "Some"
    /\ market_data.sectors # <<>>
    /\ ObserverNext

\* A worker on replaced cells returns from train().
OrphanReturns ==
    /\ orphans > 0
    /\ orphans' = orphans - 1
    /\ UNCHANGED <<call, ret, market_data, shared, locks, worker_vars, ui_vars,
                   training_progress, started>>

SessionNext ==
    \/ StartTraining
    \/ Retrain
    \/ Retry
    \/ SessionPoll
    \/ WorkerNext
    \/ OrphanReturns

SessionSpec == SessionInit /\ [][SessionNext]_vars

\* Market data for each way train() can end: no sector and the shortest
\* history (no sample), one bar more (too few samples), and the shortest
\* history train() accepts.
FairRunInputs == SessionInputs \cup {MarketDataOf(SessionBars(Min(BarCounts) + 1))}

FairRunInit == Init /\ market_data \in FairRunInputs

\* Any such run, with a worker that is not passed over for ever at a
\* mutex: a thread blocked in lock() gets the mutex at one of the times it
\* is free (the observer holds a guard for one copy and then draws a whole
\* frame).  The observer keeps repainting and never stops while holding a
\* guard.
FairRunSpec ==
    FairRunInit /\ [][Next]_vars /\ SF_vars(WorkerNext) /\ WF_vars(ObserverNext)

(***************************************************************************)
(* The dataset builder applied on its own, to market data of every shape:  *)
(* no sector up to one sector more than a row has slots, series of any of  *)
(* the lengths below, with or without a benchmark, with or without enough  *)
(* treasury rates.                                                         *)
(***************************************************************************)
\* Numbers of returns of a series: none, one fewer than build_dataset asks
\* for, the number that gives lookback + forward + 3 volatilities, the
\* minimum, and more.
ReturnCounts ==
    {0, MinReturns - 1, NN_LOOKBACK_DAYS + NN_FORWARD_DAYS + SHORT_VOL_WINDOW + 2,
     MinReturns, MinReturns + 2}

DatasetMaxSectors == SECTOR_SLOTS + 1

DatasetSectorLists ==
    UNION {[1..n -> {r + 1 : r \in ReturnCounts}] : n \in 0..DatasetMaxSectors}

Benchmarks ==
    {NoBenchmark} \cup
    {[present |-> TRUE, symbol |-> BENCHMARK_SYMBOL, bars |-> b] :
        b \in {1, MinReturns + 1, MinReturns + 3}}

\* The i-th treasury observation; without its 2Y rate if not complete.
RateOf(i, complete) ==
    [date_ok |-> TRUE, date |-> i,
     has10 |-> TRUE, year10 |-> 2 * i,
     has2 |-> complete, year2 |-> i,
     has30 |-> TRUE, year30 |-> 3 * i,
     has3m |-> TRUE, month3 |-> 0]

RateLists ==
    {<<>>}
    \cup {[i \in 1..n |-> RateOf(i, TRUE)] : n \in {MinReturns, MinReturns + 3}}
    \cup {[i \in 1..(MinReturns + 3) |-> RateOf(i, i # 1)]}

DatasetInputs ==
    {[sectors |-> [i \in 1..Len(bars) |-> [symbol |-> SECTOR_ETFS[i], bars |-> bars[i]]],
      benchmark |-> bench,
      treasury_rates |-> rates] :
        bars \in DatasetSectorLists, bench \in Benchmarks, rates \in RateLists}

\* The training run and its observer take no part in these calls.
NoRun ==
    /\ market_data = MarketDataOf(<<>>)
    /\ status = Idle
    /\ losses = <<>>
    /\ predictions = <<>>
    /\ locks = [status |-> "none", losses |-> "none", predictions |-> "none"]
    /\ pc = "done"
    /\ st_arg = Idle
    /\ st_ret = "done"
    /\ dataset = [samples |-> <<>>]
    /\ train_dataset = <<>>
    /\ val_samples = <<>>
    /\ model = 0
    /\ epoch = 0
    /\ epoch_loss = F(0, 1)
    /\ batch_count = 0
    /\ remaining = {}
    /\ avg_loss = NAN
    /\ best_loss = INFINITY
    /\ new_predictions = <<>>
    /\ used = {}
    /\ log = <<>>
    /\ ui_pc = "frame"
    /\ training_status = Idle
    /\ training_losses = <<>>
    /\ nn_predictions = <<>>
    /\ last_epoch_read = -1
    /\ training_progress = "None"
    /\ started = 0
    /\ orphans = 0

BuildDatasetCalls == {[fn |-> "build_dataset", data |-> d] : d \in DatasetInputs}

CallBuildDataset ==
    /\ call.fn = "build_dataset"
    /\ ret = <<>>
    /\ ret' = <<build_dataset(call.data, NN_LOOKBACK_DAYS, NN_FORWARD_DAYS)>>
    /\ UNCHANGED <<call, run_vars>>

(***************************************************************************)
(* The volatility and correlation functions applied on their own.          *)
(***************************************************************************)
\* Longest return series and largest window of a volatility call.
MaxSeriesLen == 5

MaxWindow == 4

\* Longest series of a volatility_ratio call.
MaxRatioLen == 3

\* Longest return series of a correlation call.
MaxCorrLen == 3

\* The first n returns of a symbol.
ReturnsOf(symbol, n) == [i \in 1..n |-> Val("ret", symbol, i, i)]

\* n daily highs (or lows) of a symbol.
RangeOf(kind, symbol, n) == [i \in 1..n |-> Val(kind, symbol, i, i)]

RollingVolatilityCalls ==
    {[fn |-> "rolling_volatility", returns |-> ReturnsOf(SECTOR_ETFS[1], n), window |-> w] :
        n \in 0..MaxSeriesLen, w \in 0..MaxWindow}

\* Volatility series whose elements are far from zero or (near) zero.
VolSeries(name, allow_zero) ==
    UNION {{[i \in 1..n |-> IF z[i] THEN Zero ELSE Val("vol", name, i, i)] :
                z \in [1..n -> (IF allow_zero THEN BOOLEAN ELSE {FALSE})]} :
           n \in 0..MaxRatioLen}

VolatilityRatioCalls ==
    {[fn |-> "volatility_ratio", short_vol |-> sv, long_vol |-> lv] :
        sv \in VolSeries("short", FALSE), lv \in VolSeries("long", TRUE)}

\* Highs and lows usually come one per bar (one more than the returns); a
\* series may also be missing, or the two may differ in length.
ComputeSectorVolatilityCalls ==
    UNION {{[fn |-> "compute_sector_volatility",
             symbol |-> SECTOR_ETFS[1],
             returns |-> ReturnsOf(SECTOR_ETFS[1], n),
             highs |-> RangeOf("high", SECTOR_ETFS[1], h),
             lows |-> RangeOf("low", SECTOR_ETFS[1], l),
             short_window |-> sw,
             long_window |-> lw] :
                h \in {0, n, n + 1}, l \in {n, n + 1}, sw \in 0..MaxWindow, lw \in 0..MaxWindow} :
           n \in 0..MaxSeriesLen}

\* One return series per symbol, of any length up to MaxCorrLen.
ComputeCorrelationMatrixCalls ==
    UNION {{[fn |-> "compute_correlation_matrix",
             symbols |-> [i \in 1..n |-> SECTOR_ETFS[i]],
             returns |-> [i \in 1..n |-> ReturnsOf(SECTOR_ETFS[i], lens[i])]] :
                lens \in [1..n -> 0..MaxCorrLen]} :
           n \in 0..DatasetMaxSectors}

\* Longest list of treasury observations of a bond-spread call.
MaxRates == 3

\* One treasury observation.  Rates are in tenths of a percent; a rate
\* that is None has its flag unset.  The date string of an observation may
\* fail to parse.
Observation(date_ok, y2, y10, y30, m3) ==
    [date_ok |-> date_ok, date |-> 0,
     has10 |-> y10 # -1, year10 |-> IF y10 = -1 THEN 0 ELSE y10,
     has2 |-> y2 # -1, year2 |-> IF y2 = -1 THEN 0 ELSE y2,
     has30 |-> y30 # -1, year30 |-> IF y30 = -1 THEN 0 ELSE y30,
     has3m |-> m3 # -1, month3 |-> IF m3 = -1 THEN 0 ELSE m3]

\* Normal, inverted and flat curves, observations missing each of the four
\* tenors read by the spread functions, and an observation with a bad date.
\* (-1 stands for None.)
Observations ==
    {Observation(TRUE, 35, 42, 48, 36),
     Observation(TRUE, 45, 42, 48, 36),
     Observation(TRUE, 40, 40, 48, 36),
     Observation(TRUE, -1, 42, 48, 36),
     Observation(TRUE, 35, -1, 48, 36),
     Observation(TRUE, 35, 42, -1, 36),
     Observation(TRUE, 35, 42, 48, -1),
     Observation(FALSE, 45, 42, 48, 36)}

\* Lists of observations; the i-th one is dated day i.
ObservationLists ==
    UNION {{[i \in 1..n |-> [obs[i] EXCEPT !.date = i]] : obs \in [1..n -> Observations]} :
           n \in 0..MaxRates}

ComputeTermSpreadsCalls ==
    {[fn |-> "compute_term_spreads", rates |-> rates] : rates \in ObservationLists}

DetectInversionsCalls ==
    {[fn |-> "detect_inversions", rates |-> rates] : rates \in ObservationLists}

\* Longest shortest-sector return series of a run with the configured sizes.
MaxConfiguredLen == 200

\* train() on market data whose shortest sector has min_len returns, with
\* the configured windows, lookback, horizon and batch size.
ConfiguredRunCalls ==
    {[fn |-> "configured_run", min_len |-> m] : m \in 0..MaxConfiguredLen}

CallRollingVolatility ==
    /\ call.fn = "rolling_volatility"
    /\ ret = <<>>
    /\ ret' = <<rolling_volatility(call.returns, call.window)>>
    /\ UNCHANGED <<call, run_vars>>

CallVolatilityRatio ==
    /\ call.fn = "volatility_ratio"
    /\ ret = <<>>
    /\ ret' = <<volatility_ratio(call.short_vol, call.long_vol)>>
    /\ UNCHANGED <<call, run_vars>>

CallComputeSectorVolatility ==
    /\ call.fn = "compute_sector_volatility"
    /\ ret = <<>>
    /\ ret' = <<compute_sector_volatility(call.symbol, call.returns, call.highs, call.lows,
                                          call.short_window, call.long_window)>>
    /\ UNCHANGED <<call, run_vars>>

CallComputeCorrelationMatrix ==
    /\ call.fn = "compute_correlation_matrix"
    /\ ret = <<>>
    /\ ret' = <<compute_correlation_matrix(call.symbols, call.returns)>>
    /\ UNCHANGED <<call, run_vars>>

CallComputeTermSpreads ==
    /\ call.fn = "compute_term_spreads"
    /\ ret = <<>>
    /\ ret' = <<compute_term_spreads(call.rates)>>
    /\ UNCHANGED <<call, run_vars>>

CallDetectInversions ==
    /\ call.fn = "detect_inversions"
    /\ ret = <<>>
    /\ ret' = <<detect_inversions(call.rates)>>
    /\ UNCHANGED <<call, run_vars>>

CallConfiguredRun ==
    /\ call.fn = "configured_run"
    /\ ret = <<>>
    /\ LET total == sample_count(call.min_len, CONFIG_SHORT_VOL_WINDOW,
                                 CONFIG_LONG_VOL_WINDOW, CONFIG_NN_LOOKBACK_DAYS,
                                 CONFIG_NN_FORWARD_DAYS)
       IN  ret' = <<[total |-> total,
                     error |-> train_checks(total, CONFIG_NN_BATCH_SIZE)]>>
    /\ UNCHANGED <<call, run_vars>>

AnalysisInit ==
    /\ NoRun
    /\ ret = <<>>
    /\ \/ call \in BuildDatasetCalls
       \/ call \in RollingVolatilityCalls
       \/ call \in VolatilityRatioCalls
       \/ call \in ComputeSectorVolatilityCalls
       \/ call \in ComputeCorrelationMatrixCalls
       \/ call \in ComputeTermSpreadsCalls
       \/ call \in DetectInversionsCalls
       \/ call \in ConfiguredRunCalls

AnalysisNext ==
    \/ CallBuildDataset
    \/ CallRollingVolatility
    \/ CallVolatilityRatio
    \/ CallComputeSectorVolatility
    \/ CallComputeCorrelationMatrix
    \/ CallComputeTermSpreads
    \/ CallDetectInversions
    \/ CallConfiguredRun

AnalysisSpec == AnalysisInit /\ [][AnalysisNext]_vars

(***************************************************************************)
(* Properties of one training run.                                         *)
(***************************************************************************)
\* The number of samples build_dataset returns for the run's market data.
SampleCount == Len(BuiltDatasets[market_data].samples)

Terminal(st) == st.tag \in {"Complete", "Error"}

\* The statuses the worker has written so far, in order.
StatusWrites == SelectSeq(log, LAMBDA en : en.ev = "status")

\* A change of the status cell that the state machine of TrainingStatus allows.
AllowedStatusChange(old, new) ==
    \/ /\ old.tag = "Idle"
       /\ new = Training(0, NN_EPOCHS, NAN)
    \/ /\ old.tag = "Training"
       /\ new.tag = "Training"
       /\ new.epoch = old.epoch + 1
       /\ new.epoch <= NN_EPOCHS
       /\ new.total_epochs = NN_EPOCHS
    \/ /\ old.tag = "Training"
       /\ old.epoch = NN_EPOCHS
       /\ new.tag = "Complete"
    \/ /\ old.tag = "Training"
       /\ old.epoch = 0
       /\ new.tag = "Error"

\* C1: the status cell only changes along Idle -> Training{0,E} -> Training{1}
\* -> ... -> Training{E} -> Complete or Idle -> Training{0} -> Error; the first
\* value the worker writes is Training{0,E}; once the cell holds Complete or
\* Error the worker writes it no more.
C1_StatusFollowsStateMachine ==
    [][/\ status' # status => AllowedStatusChange(status, status')
       /\ Terminal(status) => (status' = status /\ log' = log /\ pc' = "done")
       /\ (Len(StatusWrites) = 0 /\ status' # status) => status' = Training(0, NN_EPOCHS, NAN)
      ]_vars

\* A full successful run: every epoch was published and Complete is in the cell.
C1_Witness ==
    /\ pc = "done"
    /\ status.tag = "Complete"
    /\ Len(StatusWrites) = NN_EPOCHS + 2

\* C2: when the dataset has fewer samples than one batch (the empty dataset
\* included), the status cell never holds Training with epoch > 0, the run
\* ends in Error, and the loss history and the predictions are empty when
\* Error is published and ever after.
C2_SmallDatasetEndsInErrorOnly ==
    SampleCount < NN_BATCH_SIZE =>
        /\ status.tag \in {"Idle", "Training", "Error"}
        /\ status.tag = "Training" => status.epoch = 0
        /\ \A i \in 1..Len(log) :
              /\ log[i].ev = "status"
              /\ log[i].st.tag = "Training" => log[i].st.epoch = 0
        /\ losses = <<>>
        /\ predictions = <<>>
        /\ pc = "done" => status.tag = "Error"
        /\ model = 0

\* A run on a non-empty dataset smaller than one batch has ended in Error.
C2_Witness ==
    /\ SampleCount > 0
    /\ SampleCount < NN_BATCH_SIZE
    /\ pc = "done"
    /\ status.tag = "Error"

\* C3: a run over N samples ends in Error exactly when N = 0 (not enough
\* data), or floor(0.8 N) is smaller than the batch size or N - floor(0.8 N)
\* < 1 (dataset too small); otherwise it runs the epoch loop and ends in
\* Complete.  The Error publish is the run's last write to a shared cell.
C3_ErrorExactlyWhenTooFewSamples ==
    LET N == SampleCount
        small == ((4 * N) \div 5) < NN_BATCH_SIZE \/ N - ((4 * N) \div 5) < 1
    IN  /\ pc = "done" =>
            /\ status.tag = "Error" <=> (N = 0 \/ small)
            /\ N = 0 => status = Error(NotEnoughData)
            /\ (N > 0 /\ small) => status = Error(DatasetTooSmall(N))
            /\ ~(N = 0 \/ small) =>
                  /\ status.tag = "Complete"
                  /\ Len(losses) = NN_EPOCHS
                  /\ Cardinality({i \in 1..Len(log) : log[i].ev = "batch"}) >= NN_EPOCHS
        /\ \A i \in 1..Len(log) :
              (log[i].ev = "status" /\ log[i].st.tag = "Error") =>
                  /\ i = Len(log)
                  /\ status = log[i].st
                  /\ losses = <<>>
                  /\ predictions = <<>>

\* The training portion is smaller than a batch although the dataset is not.
C3_Witness ==
    /\ SampleCount >= NN_BATCH_SIZE
    /\ pc = "done"
    /\ status = Error(DatasetTooSmall(SampleCount))


\* Positions in the log of the append of epoch k's loss (k counted from 1).
LossAppendsOf(k) == {i \in 1..Len(log) : log[i].ev = "loss" /\ log[i].epoch = k - 1}

\* Positions in the log of the publishes of Training{epoch = k}.
PublishesOf(k) ==
    {i \in 1..Len(log) :
        log[i].ev = "status" /\ log[i].st.tag = "Training" /\ log[i].st.epoch = k}

\* Positions in the log of the optimizer steps of epoch k (k counted from 1).
BatchesOf(k) == {i \in 1..Len(log) : log[i].ev = "batch" /\ log[i].epoch = k - 1}

\* The worker is between the append of an epoch's loss and the next loop head.
EpochJustEnded ==
    /\ pc \in {"status_lock", "status_write", "epoch_next"}
    /\ st_ret = "epoch_next"

\* The points by which epoch k must have been published: every optimizer
\* step of epoch k + 1, and the end of a completed run.
DeadlinesOf(k) ==
    BatchesOf(k + 1) \cup
    (IF \E i \in 1..Len(log) : log[i].ev = "status" /\ log[i].st.tag = "Complete"
     THEN {Len(log)} ELSE {})

\* C4: for every epoch k in 1..E the worker appends that epoch's average loss
\* to the loss history exactly once and publishes Training{k, E, avg} exactly
\* once, both before the first batch of epoch k + 1; no publish is skipped,
\* merged or deferred.
C4_OneAppendAndOnePublishPerEpoch ==
    /\ \A k \in 1..NN_EPOCHS :
          /\ Cardinality(LossAppendsOf(k)) <= 1
          /\ Cardinality(PublishesOf(k)) <= 1
          /\ \A i \in LossAppendsOf(k) :
                /\ Len(losses) >= k
                /\ losses[k] = log[i].loss
          /\ \A i \in PublishesOf(k) :
                /\ log[i].st = Training(k, NN_EPOCHS, losses[k])
                /\ \E j \in LossAppendsOf(k) : j < i
          /\ \A d \in DeadlinesOf(k) :
                /\ \E i \in LossAppendsOf(k) : i < d
                /\ \E i \in PublishesOf(k) : i < d
    /\ Len(losses) = Cardinality({i \in 1..Len(log) : log[i].ev = "loss"})
    /\ pc = "batch" =>
          /\ Len(losses) = epoch
          /\ status.tag = "Training"
          /\ status.epoch = epoch
          /\ epoch > 0 => status.loss = losses[epoch]
    /\ EpochJustEnded =>
          /\ Len(losses) = epoch + 1
          /\ batch_count = Cardinality(BatchesOf(epoch + 1))
          /\ batch_count > 0
          /\ losses[epoch + 1] = FDivCount(epoch_loss, batch_count)

\* The first batch of the second epoch has been processed.
C4_Witness ==
    /\ pc = "batch"
    /\ epoch = 1
    /\ batch_count = 1
    /\ BatchesOf(2) # {}

\* C5: the epochs of the successive Training statuses the observer reads are
\* monotonically non-decreasing, whatever the interleaving.
C5_ObservedEpochsNeverDecrease ==
    [][(ui_pc = "status_read" /\ ui_pc' # ui_pc /\ training_status'.tag = "Training") =>
          /\ training_status'.epoch >= last_epoch_read
          /\ training_status.tag = "Training" =>
                training_status'.epoch >= training_status.epoch
      ]_vars

\* The observer, which has read Training{1} before, is about to read Training{2}.
C5_Witness ==
    /\ ui_pc = "status_read"
    /\ last_epoch_read = 1
    /\ status.tag = "Training"
    /\ status.epoch = 2

\* A finished poll: the three copies shown in this frame.
PollDone == ui_pc = "frame"

\* The displayed status reports an epoch whose loss the displayed history lacks.
StatusAheadSnapshot ==
    /\ PollDone
    /\ training_status.tag = "Training"
    /\ Len(training_losses) < training_status.epoch

\* The displayed history holds a loss the displayed status does not report yet.
LossesAheadSnapshot ==
    /\ PollDone
    /\ training_status.tag = "Training"
    /\ Len(training_losses) > training_status.epoch

\* C6 (as amended): a poll never yields Training{k} with fewer than k losses,
\* because the worker appends before it publishes and render() reads the
\* status before the losses; the copies may only disagree the other way round.
C6_PollNeverShowsStatusAheadOfLosses ==
    (ui_pc \in {"predictions_lock", "predictions_read", "frame"}
        /\ training_status.tag = "Training")
    => Len(training_losses) >= training_status.epoch

\* A poll whose copied history is ahead of its copied status.
C6_Witness == LossesAheadSnapshot /\ last_epoch_read >= 0

\* C6 (as claimed): a poll of a run that goes through its epochs yields, at
\* some time, Training{k} together with fewer than k losses.
C6_Original == <>StatusAheadSnapshot

\* The cells whose mutex a thread holds.
HeldBy(thread) == {c \in {"status", "losses", "predictions"} : locks[c] = thread}

\* The worker has a step to take: a local computation, which nothing can
\* block, or a lock, write or batch step that is enabled.
WorkerCanStep ==
    \/ pc \in {"build", "epoch_head", "epoch_next"}
    \/ ENABLED (\/ TrainBegin
                \/ SetStatusLock
                \/ SetStatusWrite
                \/ TrainBatch
                \/ LossesLock
                \/ LossesPush
                \/ PredictionsLock
                \/ PredictionsWrite)

\* C7: neither the worker nor the observer ever holds two of the three locks
\* at once, a thread outside its critical sections holds none, and the two
\* threads are never both blocked.
C7_AtMostOneLockAndNoDeadlock ==
    /\ Cardinality(HeldBy("worker")) <= 1
    /\ Cardinality(HeldBy("ui")) <= 1
    /\ pc \notin {"status_write", "losses_push", "predictions_write"} => HeldBy("worker") = {}
    /\ ui_pc \notin {"status_read", "losses_read", "predictions_read"} => HeldBy("ui") = {}
    /\ pc # "done" => (WorkerCanStep \/ ENABLED ObserverNext)
    /\ (~WorkerCanStep /\ pc # "done") => (HeldBy("ui") # {} /\ ENABLED ObserverNext)
    /\ ~(ENABLED ObserverNext) => (HeldBy("worker") # {} /\ WorkerCanStep)

\* The worker waits for the status lock while the observer holds it.
C7_Witness ==
    /\ pc = "status_lock"
    /\ locks.status = "ui"
    /\ ~WorkerCanStep

\* C8 (as claimed): when the status cell holds Complete{final_loss},
\* final_loss is the minimum of the per-epoch averages in the loss history: it
\* equals one of the recorded averages and none of them is below it.
C8_FinalLossIsHistoryMinimum ==
    status.tag = "Complete" =>
        /\ \E i \in 1..Len(losses) : FEq(losses[i], status.loss)
        /\ \A i \in 1..Len(losses) : ~FLt(losses[i], status.loss)

\* The indices of the log at which the predictions cell was written.
PredictionWrites == {i \in 1..Len(log) : log[i].ev = "predictions"}

\* The sample of the dataset whose window is the most recent one, and the
\* return at which the first sector's volatility ends in its last row.
LastSample == BuiltDatasets[market_data].samples[SampleCount]

LastRowEnd(sample) == sample.features[NN_LOOKBACK_DAYS][1].b

\* C9: in a successful run the predictions cell is written exactly once,
\* after the publish of Training{E} and before the publish of Complete; the
\* list written has one (symbol, value) entry per sector, in sector order, all
\* with the same value: the model's output for the last sample of the
\* dataset, which is its most recent window.
C9_PredictionsWrittenOnceFromLastSample ==
    /\ Cardinality(PredictionWrites) <= 1
    /\ status.tag = "Complete" => Cardinality(PredictionWrites) = 1
    /\ PredictionWrites = {} => predictions = <<>>
    /\ \A i \in PredictionWrites :
          /\ \E j \in 1..(i - 1) :
                /\ log[j].ev = "status"
                /\ log[j].st = Training(NN_EPOCHS, NN_EPOCHS, losses[NN_EPOCHS])
          /\ \A j \in 1..Len(log) :
                /\ (log[j].ev = "status" /\ log[j].st.tag = "Training") => j < i
                /\ log[j].ev \in {"loss", "batch"} => j < i
                /\ (log[j].ev = "status" /\ log[j].st.tag = "Complete") => j > i
          /\ Len(predictions) = Len(market_data.sectors)
          /\ \A n \in 1..Len(predictions) :
                /\ predictions[n].symbol = market_data.sectors[n].symbol
                /\ predictions[n].value = Forward(model, LastSample.features)
          /\ \A n \in 1..SampleCount :
                LastRowEnd(BuiltDatasets[market_data].samples[n]) <= LastRowEnd(LastSample)
          /\ \A n \in 1..(SampleCount - 1) :
                LastRowEnd(BuiltDatasets[market_data].samples[n]) < LastRowEnd(LastSample)

\* A successful run has written one prediction per sector and is complete.
C9_Witness ==
    /\ status.tag = "Complete"
    /\ Len(predictions) = MaxSectors
    /\ SampleCount > NN_BATCH_SIZE + 1

\* The return at which the window of a sample starts (first row, first sector).
WindowStart(sample) == sample.features[1][1].a

\* How many returns of sector n precede the aligned part of its series.
SectorOffset(n) ==
    LET lens == {market_data.sectors[i].bars - 1 : i \in 1..Len(market_data.sectors)}
    IN  (market_data.sectors[n].bars - 1) - Min(lens)

\* C10: sample i of the dataset is the window that starts at time index i;
\* the training portion is the first floor(0.8 N) samples and the held-out
\* portion the rest, so every training window starts before every held-out
\* window; the batches are drawn from the training portion only, and no
\* held-out sample is used in an optimizer step.
C10_ChronologicalSplitAndTrainingOnlySteps ==
    LET samples == dataset.samples
        N == Len(samples)
    IN  /\ \A i \in 1..N : \A k \in 1..NN_LOOKBACK_DAYS :
              \A n \in 1..Len(market_data.sectors) :
                  samples[i].features[k][n] =
                      Val("vol", market_data.sectors[n].symbol,
                          SectorOffset(n) + i + k - 1,
                          SectorOffset(n) + i + k - 2 + SHORT_VOL_WINDOW)
        /\ \A i \in 1..N : \A j \in 1..N :
              i < j => WindowStart(samples[i]) < WindowStart(samples[j])
        /\ train_dataset # <<>> =>
              /\ 5 * Len(train_dataset) <= 4 * N
              /\ 4 * N < 5 * (Len(train_dataset) + 1)
              /\ train_dataset \o val_samples = samples
              /\ val_samples # <<>>
              /\ \A i \in 1..Len(train_dataset) : \A j \in 1..Len(val_samples) :
                    WindowStart(train_dataset[i]) < WindowStart(val_samples[j])
        /\ remaining \subseteq 1..Len(train_dataset)
        /\ used \subseteq {train_dataset[i] : i \in 1..Len(train_dataset)}
        /\ used \cap {val_samples[j] : j \in 1..Len(val_samples)} = {}
        /\ model > 0 => used # {}

\* Every training sample went through an optimizer step, in more than one
\* batch, and a held-out portion exists.
C10_Witness ==
    /\ Len(train_dataset) > NN_BATCH_SIZE
    /\ used = {train_dataset[i] : i \in 1..Len(train_dataset)}
    /\ val_samples # <<>>
    /\ model >= 2

\* C11 (as claimed): after start_training has set the displayed status to
\* Training{0}, the status the observer displays never goes back to Idle while
\* the user does not reset (the run has no reset), in any interleaving of the
\* renders with the start-up of the worker thread.
C11_DisplayedStatusNeverBackToIdle ==
    [][training_status.tag # "Idle" => training_status'.tag # "Idle"]_vars

(***************************************************************************)
(* Properties of the analysis functions.                                   *)
(***************************************************************************)
\* The call of function f has returned.
Returned(f) == call.fn = f /\ Len(ret) = 1

\* The width of a feature row the model accepts (26 in the source).
NUM_FEATURES == 2 * SECTOR_SLOTS + 4

\* C12 (as claimed): every sample build_dataset emits has exactly lookback
\* rows and every row has exactly NUM_FEATURES entries, for any number of
\* sectors, with or without a benchmark and with or without enough bond data.
C12_EverySampleHasFixedShape ==
    Returned("build_dataset") =>
        \A i \in 1..Len(ret[1].samples) :
            /\ Len(ret[1].samples[i].features) = NN_LOOKBACK_DAYS
            /\ \A k \in 1..NN_LOOKBACK_DAYS :
                  Len(ret[1].samples[i].features[k]) = NUM_FEATURES

\* The number of returns of a series with the given number of bars.
ReturnCount(bars) == IF bars > 0 THEN bars - 1 ELSE 0

\* The length of the shortest sector return series of the data of the call.
CallMinLen ==
    Min({ReturnCount(call.data.sectors[i].bars) : i \in 1..Len(call.data.sectors)})

\* The common length of the sectors' short-window volatility series.
CallVolLen ==
    IF CallMinLen < SHORT_VOL_WINDOW THEN 0 ELSE CallMinLen - SHORT_VOL_WINDOW + 1

\* C13 (amended): for an input with at least one sector, build_dataset returns
\* vol_len - forward - lookback samples, one per window start, each with
\* lookback rows, when the shortest return series has at least lookback +
\* forward + LONG_VOL_WINDOW returns, and no sample otherwise; an input with
\* vol_len = lookback + forward + 3 is too short and yields no sample.
C13_SampleCountFromVolLen ==
    (Returned("build_dataset") /\ Len(call.data.sectors) > 0) =>
        /\ Len(ret[1].samples) =
              (IF CallMinLen >= NN_LOOKBACK_DAYS + NN_FORWARD_DAYS + LONG_VOL_WINDOW
               THEN CallVolLen - NN_FORWARD_DAYS - NN_LOOKBACK_DAYS
               ELSE 0)
        /\ \A i \in 1..Len(ret[1].samples) :
              Len(ret[1].samples[i].features) = NN_LOOKBACK_DAYS
        /\ CallVolLen = NN_LOOKBACK_DAYS + NN_FORWARD_DAYS + 3 => ret[1].samples = <<>>

\* build_dataset has returned for a multi-sector input whose volatility
\* series have common length lookback + forward + 3.
C13_Witness ==
    /\ Returned("build_dataset")
    /\ Len(call.data.sectors) > 1
    /\ CallVolLen = NN_LOOKBACK_DAYS + NN_FORWARD_DAYS + 3

\* C13 (as claimed): for a multi-sector input whose volatility series have
\* common length lookback + forward + 3, build_dataset returns 3 samples.
C13_Original ==
    (/\ Returned("build_dataset")
     /\ Len(call.data.sectors) > 1
     /\ CallVolLen = NN_LOOKBACK_DAYS + NN_FORWARD_DAYS + 3) =>
        Len(ret[1].samples) = 3

\* How many returns of sector n of the call precede the aligned part.
CallOffset(n) == ReturnCount(call.data.sectors[n].bars) - CallMinLen

\* The benchmark volatility for the time index t (from 0), 0.0 when there is
\* no benchmark or its volatility series is shorter than vol_len.
CallBenchmarkVol(t) ==
    LET bench == call.data.benchmark
        bench_len == ReturnCount(bench.bars) - SHORT_VOL_WINDOW + 1
    IN  IF ~bench.present \/ bench_len < CallVolLen THEN Zero
        ELSE Val("vol", bench.symbol,
                 bench_len - CallVolLen + t + 1,
                 bench_len - CallVolLen + t + SHORT_VOL_WINDOW)

\* C14: with n <= SECTOR_SLOTS sectors, row k of the sample that starts at t
\* describes time index t + k: first the n sectors' short-window volatilities
\* at that index in input order, zeros up to SECTOR_SLOTS, then the same
\* sectors' returns (each the return of the last day of the window of that
\* row's volatility), zeros up to 2 * SECTOR_SLOTS, then the average
\* cross-sector correlation (one value for all rows of all samples), the bond
\* spread, the curve slope, and the benchmark volatility (0.0 without one).
C14_RowLayout ==
    (Returned("build_dataset") /\ Len(call.data.sectors) <= SECTOR_SLOTS) =>
        LET samples == ret[1].samples
            n == Len(call.data.sectors)
        IN  \A i \in 1..Len(samples) : \A k \in 1..NN_LOOKBACK_DAYS :
                LET row == samples[i].features[k]
                    t == (i - 1) + (k - 1)
                IN  /\ Len(row) = NUM_FEATURES
                    /\ \A j \in 1..n :
                          /\ row[j] = Val("vol", call.data.sectors[j].symbol,
                                          CallOffset(j) + t + 1,
                                          CallOffset(j) + t + SHORT_VOL_WINDOW)
                          /\ row[SECTOR_SLOTS + j] =
                                Val("ret", call.data.sectors[j].symbol,
                                    CallOffset(j) + t + SHORT_VOL_WINDOW,
                                    CallOffset(j) + t + SHORT_VOL_WINDOW)
                    /\ \A j \in (n + 1)..SECTOR_SLOTS :
                          row[j] = Zero /\ row[SECTOR_SLOTS + j] = Zero
                    /\ row[2 * SECTOR_SLOTS + 1] =
                          (IF n < 2 THEN Zero ELSE Val("corr", "", n, CallMinLen))
                    /\ row[2 * SECTOR_SLOTS + 1] = samples[1].features[1][2 * SECTOR_SLOTS + 1]
                    /\ row[2 * SECTOR_SLOTS + 2].k \in {"spread", "zero"}
                    /\ row[2 * SECTOR_SLOTS + 3].k \in {"slope", "zero"}
                    /\ row[2 * SECTOR_SLOTS + 4] = CallBenchmarkVol(t)

\* A dataset was built from sectors of different lengths, with a benchmark
\* and bond data that reach the rows.
C14_Witness ==
    /\ Returned("build_dataset")
    /\ Len(call.data.sectors) = SECTOR_SLOTS
    /\ CallOffset(1) > 0
    /\ Len(ret[1].samples) > 1
    /\ ret[1].samples[2].features[1][2 * SECTOR_SLOTS + 2].k = "spread"
    /\ ret[1].samples[2].features[1][2 * SECTOR_SLOTS + 4].k = "vol"

CorrMinLen == Min({Len(call.returns[i]) : i \in 1..Len(call.returns)})

\* C16: for n >= 1 symbols with one return series each, every series with at
\* least 2 points, compute_correlation_matrix returns an n x n matrix that is
\* symmetric with every diagonal entry exactly 1.0; the coefficient of a pair
\* is computed once, from the trailing min_len elements of both series, and
\* is mirrored into both triangles.
C16_SymmetricWithUnitDiagonal ==
    (/\ Returned("compute_correlation_matrix")
     /\ Len(call.symbols) >= 1
     /\ CorrMinLen >= 2) =>
        LET n == Len(call.symbols)
            matrix == ret[1].matrix
        IN  /\ ret[1].symbols = call.symbols
            /\ Len(matrix) = n
            /\ \A i \in 1..n :
                  /\ Len(matrix[i]) = n
                  /\ matrix[i][i] = CorrOne
                  /\ \A j \in 1..n : matrix[i][j] = matrix[j][i]
                  /\ \A j \in (i + 1)..n :
                        matrix[i][j] =
                            [k |-> "pearson",
                             x |-> SubSeq(call.returns[i],
                                          Len(call.returns[i]) - CorrMinLen + 1,
                                          Len(call.returns[i])),
                             y |-> SubSeq(call.returns[j],
                                          Len(call.returns[j]) - CorrMinLen + 1,
                                          Len(call.returns[j]))]

\* A matrix was computed for more than two symbols whose series differ in length.
C16_Witness ==
    /\ Returned("compute_correlation_matrix")
    /\ Len(call.symbols) > 2
    /\ CorrMinLen = 2
    /\ Len(call.returns[1]) > 2
    /\ ret[1].matrix[2][1].k = "pearson"

\* C17 (as claimed): when the shortest return series has fewer than 2 points,
\* compute_correlation_matrix returns the neutral matrix for the symbols:
\* every entry off the diagonal is 0.0 and the diagonal is 1.0.
C17_NeutralMatrixForShortSeries ==
    (/\ Returned("compute_correlation_matrix")
     /\ Len(call.symbols) >= 1
     /\ CorrMinLen < 2) =>
        LET n == Len(call.symbols)
            matrix == ret[1].matrix
        IN  /\ ret[1].symbols = call.symbols
            /\ Len(matrix) = n
            /\ \A i \in 1..n :
                  /\ Len(matrix[i]) = n
                  /\ \A j \in 1..n :
                        matrix[i][j] = (IF i = j THEN CorrOne ELSE CorrZero)

\* t is what is left of u after dropping leading elements only.
IsTrailingPartOf(t, u) ==
    /\ Len(t) <= Len(u)
    /\ t = SubSeq(u, Len(u) - Len(t) + 1, Len(u))

\* C18 (as claimed): for any inputs to compute_sector_volatility, the four
\* returned series have the same length, the length of the long-window
\* series, and each is the trailing part of its untrimmed series.
C18_FourSeriesOfCommonLength ==
    Returned("compute_sector_volatility") =>
        LET m == ret[1]
            n == Len(rolling_volatility(call.returns, call.long_window))
        IN  /\ Len(m.long_window_vol) = n
            /\ Len(m.short_window_vol) = n
            /\ Len(m.parkinson_vol) = n
            /\ Len(m.vol_ratio) = n
            /\ IsTrailingPartOf(m.short_window_vol,
                                rolling_volatility(call.returns, call.short_window))
            /\ IsTrailingPartOf(m.long_window_vol,
                                rolling_volatility(call.returns, call.long_window))
            /\ IsTrailingPartOf(m.parkinson_vol,
                                parkinson_volatility(call.highs, call.lows, call.short_window))

\* C19: volatility_ratio(short, long) returns min(|short|, |long|) elements
\* for any two series, empty ones included; element i is short[|short| - len
\* + i] divided by long[|long| - len + i] (both series aligned at their
\* trailing ends), and 1.0 when that long value is (near) zero.
C19_RatioAlignedAtTrailingEnds ==
    Returned("volatility_ratio") =>
        LET ns == Len(call.short_vol)
            nl == Len(call.long_vol)
            len == IF ns < nl THEN ns ELSE nl
        IN  /\ Len(ret[1]) = len
            /\ \A i \in 1..len :
                  LET sv == call.short_vol[ns - len + i]
                      lv == call.long_vol[nl - len + i]
                  IN  IF lv = Zero
                      THEN ret[1][i] = RatioOne
                      ELSE /\ ~ret[1][i].one
                           /\ ret[1][i].num = sv
                           /\ ret[1][i].den = lv

\* A ratio was computed for a short series longer than the long one, whose
\* last value is (near) zero and whose first is not.
C19_Witness ==
    /\ Returned("volatility_ratio")
    /\ Len(call.long_vol) > 1
    /\ Len(call.short_vol) > Len(call.long_vol)
    /\ ret[1][Len(ret[1])] = RatioOne
    /\ ~ret[1][1].one

\* C20: rolling_volatility(r, w) returns len(r) - w + 1 values, one per
\* contiguous window in order, when len(r) >= w >= 2, and the empty sequence
\* when len(r) < w or w < 2.
C20_OneValuePerWindow ==
    Returned("rolling_volatility") =>
        LET r == call.returns
            w == call.window
        IN  IF Len(r) >= w /\ w >= 2
            THEN /\ Len(ret[1]) = Len(r) - w + 1
                 /\ \A j \in 1..Len(ret[1]) :
                       ret[1][j] = Val("vol", r[1].s, j, j + w - 1)
            ELSE ret[1] = <<>>

\* rolling_volatility returned more than one window of more than two returns.
C20_Witness ==
    /\ Returned("rolling_volatility")
    /\ call.window > 2
    /\ Len(ret[1]) > 1

(***************************************************************************)
(* Properties of the bond-spread functions.                                *)
(***************************************************************************)
HasBothRates(r) == r.has10 /\ r.has2

\* The BondSpread the claims expect of an observation with both rates.
SpreadOf(r) ==
    [date |-> r.date,
     spread_10y_2y |-> r.year10 - r.year2,
     curve_slope |-> (IF r.has30 THEN r.year30 ELSE r.year10)
                   - (IF r.has3m THEN r.month3 ELSE r.year2)]

\* The entries are, in order, SpreadOf of the observations kept.
EntriesAreThoseOf(entries, kept) ==
    /\ Len(entries) = Len(kept)
    /\ \A i \in 1..Len(kept) : entries[i] = SpreadOf(kept[i])

DatedWithBothRates(r) == r.date_ok /\ HasBothRates(r)

\* C21 (as amended): compute_term_spreads emits, in input order, exactly
\* one entry for each observation whose date parses and that has both a 2Y
\* and a 10Y rate, with spread = 10Y - 2Y and slope = (30Y, else 10Y) -
\* (3M, else 2Y); an observation without a date, a 2Y or a 10Y rate
\* produces no entry.
C21_OneEntryPerDatedObservationWithBothRates ==
    Returned("compute_term_spreads") =>
        EntriesAreThoseOf(ret[1], SelectSeq(call.rates, DatedWithBothRates))

\* A list that mixes complete observations, one missing its 2Y rate, and
\* one missing its 30Y rate has been converted.
C21_Witness ==
    /\ Returned("compute_term_spreads")
    /\ \E i, j, k \in DOMAIN call.rates :
          /\ i < j
          /\ DatedWithBothRates(call.rates[i])
          /\ call.rates[j].date_ok /\ ~call.rates[j].has2
          /\ DatedWithBothRates(call.rates[k]) /\ ~call.rates[k].has30
    /\ Len(ret[1]) = 2

\* C21 (as claimed): one entry for each observation that has both a 2Y and
\* a 10Y rate, whatever its date.
C21_Original ==
    Returned("compute_term_spreads") =>
        EntriesAreThoseOf(ret[1], SelectSeq(call.rates, HasBothRates))

\* The dates of the entries with a negative 10Y - 2Y spread.
RECURSIVE DatesOfNegativeSpreads(_)
DatesOfNegativeSpreads(entries) ==
    IF entries = <<>> THEN <<>>
    ELSE (IF Head(entries).spread_10y_2y < 0 THEN <<Head(entries).date>> ELSE <<>>)
         \o DatesOfNegativeSpreads(Tail(entries))

\* C22: detect_inversions returns, in input order, exactly the dates of
\* the entries compute_term_spreads emits for the same observations with
\* 10Y strictly below 2Y; an observation with 10Y = 2Y, or one missing
\* either rate, is never reported.
C22_InversionsAreNegativeSpreads ==
    Returned("detect_inversions") =>
        /\ ret[1] = DatesOfNegativeSpreads(compute_term_spreads(call.rates))
        /\ \A i \in DOMAIN call.rates :
              LET r == call.rates[i]
              IN  (~HasBothRates(r) \/ r.year10 = r.year2) =>
                      \A j \in DOMAIN ret[1] : ret[1][j] # r.date

\* An inverted, a flat and an incomplete observation have been examined,
\* and only the inverted one is reported.
C22_Witness ==
    /\ Returned("detect_inversions")
    /\ \E i, j, k \in DOMAIN call.rates :
          /\ DatedWithBothRates(call.rates[i])
          /\ call.rates[i].year10 < call.rates[i].year2
          /\ DatedWithBothRates(call.rates[j])
          /\ call.rates[j].year10 = call.rates[j].year2
          /\ call.rates[k].date_ok /\ ~HasBothRates(call.rates[k])
          /\ ret[1] = <<call.rates[i].date>>

(***************************************************************************)
(* Properties of a session.                                                *)
(***************************************************************************)
\* Workers spawned by start_training that have not yet published a
\* terminal status: the one of the current handle, and those left behind.
InFlight == (IF WorkerRunning THEN 1 ELSE 0) + orphans

\* C23: at any time at most one training worker spawned by start_training
\* has not yet published a terminal status (no second worker is started
\* while a previous run is still in flight).
C23_AtMostOneWorkerInFlight == InFlight <= 1

(***************************************************************************)
(* Further properties of one training run.                                 *)
(***************************************************************************)
\* C24: whenever one poll (status, then loss history, then predictions)
\* copies a Complete status, the loss history copied in that poll has
\* exactly NN_EPOCHS entries and the predictions copied in that poll have
\* one entry per sector: Complete is never shown with a shorter history or
\* with empty predictions.
C24_CompleteShownWithFullResults ==
    training_status.tag = "Complete" =>
        /\ ui_pc \in {"predictions_lock", "predictions_read", "frame"} =>
              Len(training_losses) = NN_EPOCHS
        /\ PollDone =>
              /\ nn_predictions # <<>>
              /\ Len(nn_predictions) = Len(market_data.sectors)
              /\ \A i \in DOMAIN nn_predictions :
                    nn_predictions[i].symbol = market_data.sectors[i].symbol

\* A finished poll that copied Complete.
C24_Witness ==
    /\ PollDone
    /\ training_status.tag = "Complete"
    /\ Len(training_losses) = NN_EPOCHS
    /\ Len(nn_predictions) = MaxSectors

\* The length of the loss history the status cell allows.
HistoryMatchesStatus ==
    /\ status.tag = "Training" => Len(losses) \in {status.epoch, status.epoch + 1}
    /\ status.tag \in {"Idle", "Error"} => losses = <<>>
    /\ status.tag = "Complete" => Len(losses) = NN_EPOCHS

\* A step leaves the loss history alone or appends one value at its end.
HistoryOnlyAppended ==
    \/ losses' = losses
    \/ /\ Len(losses') = Len(losses) + 1
       /\ SubSeq(losses', 1, Len(losses)) = losses

\* C25: in every reachable state of one run's shared cells, under status
\* Training{epoch = k} the loss history has k or k + 1 entries, under Idle
\* or Error it is empty, under Complete it has exactly NN_EPOCHS entries;
\* and the loss history only ever grows by appends at its end.
C25_HistoryLengthFollowsStatus ==
    []HistoryMatchesStatus /\ [][HistoryOnlyAppended]_vars

\* After a later epoch's append and before its publish: the history is one
\* entry ahead of the Training status.
C25_Witness ==
    /\ status.tag = "Training"
    /\ status.epoch > 0
    /\ Len(losses) = status.epoch + 1

(***************************************************************************)
(* Further properties of build_dataset.                                    *)
(***************************************************************************)
\* The bond spreads build_dataset computes for the call.
CallBondSpreads == compute_term_spreads(call.data.treasury_rates)

\* The spread and slope features of row k of sample i: the third and the
\* second value from the end of the row.
SpreadAt(samples, i, k) ==
    LET row == samples[i].features[k] IN row[Len(row) - 2]

SlopeAt(samples, i, k) ==
    LET row == samples[i].features[k] IN row[Len(row) - 1]

\* bond_spreads[..vol_len].iter().rev(): time index t reads the entry
\* vol_len - 1 - t (from 0).
LeadingReversed(vol_len, t) == vol_len - t

\* The trailing vol_len entries in their order: time index t reads the
\* entry len - vol_len + t (from 0).
TrailingInOrder(vol_len, t) == Len(CallBondSpreads) - vol_len + t + 1

\* Every row of every sample takes its spread and slope from the entry
\* at position LeadingReversed (or else TrailingInOrder) of the row's time
\* index.
BondFeaturesTakenFrom(reversed) ==
    LET samples == ret[1].samples
        bs == CallBondSpreads
    IN  \A i \in 1..Len(samples) : \A k \in 1..NN_LOOKBACK_DAYS :
            LET t == (i - 1) + (k - 1)
                e == bs[IF reversed THEN LeadingReversed(CallVolLen, t)
                                    ELSE TrailingInOrder(CallVolLen, t)]
            IN  /\ SpreadAt(samples, i, k) = Val("spread", "", e.date, e.spread_10y_2y)
                /\ SlopeAt(samples, i, k) = Val("slope", "", e.date, e.curve_slope)

\* A dataset with samples was built from at least vol_len bond spreads.
BondDataCovers ==
    /\ Returned("build_dataset")
    /\ ret[1].samples # <<>>
    /\ Len(CallBondSpreads) >= CallVolLen

\* C26 (as amended): when the bond-spread series has at least vol_len
\* entries, the spread and slope features at time index t are those of the
\* entry at position vol_len - 1 - t: the leading vol_len entries, in
\* reverse order.
C26_BondFeaturesAreLeadingEntriesReversed ==
    BondDataCovers => BondFeaturesTakenFrom(TRUE)

\* More bond spreads than vol_len, one observation dropped on the way, and
\* several samples.
C26_Witness ==
    /\ BondDataCovers
    /\ Len(CallBondSpreads) > CallVolLen
    /\ Len(CallBondSpreads) < Len(call.data.treasury_rates)
    /\ Len(ret[1].samples) > 1

\* C26 (as claimed): the features at time index t are those of the entry
\* at position len - vol_len + t, the trailing vol_len entries in their
\* original order.
C26_Original ==
    BondDataCovers => BondFeaturesTakenFrom(FALSE)

\* The volatility of sector s of the call at time index t (from 0) of the
\* aligned series.
CallVol(s, t) ==
    Val("vol", call.data.sectors[s].symbol,
        CallOffset(s) + t + 1, CallOffset(s) + t + SHORT_VOL_WINDOW)

\* C27: the target of the sample with window start t is the mean, over
\* every sector and every index in [t + lookback, t + lookback + forward),
\* of the aligned volatility series; for every emitted sample that range
\* lies inside the series (forward * n_sectors values are averaged, neither
\* the clipping nor the 0.0 fallback applies), and no feature row of the
\* sample uses an index >= t + lookback.
C27_TargetIsForwardMeanAfterWindow ==
    Returned("build_dataset") =>
        LET samples == ret[1].samples
            n == Len(call.data.sectors)
        IN  \A i \in 1..Len(samples) :
                LET end == (i - 1) + NN_LOOKBACK_DAYS
                    target == samples[i].target
                IN  /\ end + NN_FORWARD_DAYS <= CallVolLen
                    /\ ~target.zero
                    /\ Len(target.mean_of) = NN_FORWARD_DAYS * n
                    /\ target.mean_of =
                          Flatten([s \in 1..n |->
                                     [j \in 1..NN_FORWARD_DAYS |-> CallVol(s, end + j - 1)]])
                    /\ \A k \in 1..NN_LOOKBACK_DAYS : \A s \in 1..n :
                          LET v == samples[i].features[k][s]
                          IN  /\ v.k = "vol"
                              /\ v.a - CallOffset(s) - 1 < end

\* Several samples were built from several sectors of different lengths.
C27_Witness ==
    /\ Returned("build_dataset")
    /\ Len(call.data.sectors) > 1
    /\ CallOffset(1) > 0
    /\ Len(ret[1].samples) > 1

\* The benchmark feature of row k of sample i: the last value of the row.
BenchmarkAt(samples, i, k) ==
    LET row == samples[i].features[k] IN row[Len(row)]

\* The length of the benchmark's short-window volatility series.
CallBenchmarkLen ==
    LET returns == ReturnCount(call.data.benchmark.bars)
    IN  IF returns < SHORT_VOL_WINDOW THEN 0 ELSE returns - SHORT_VOL_WINDOW + 1

\* build_dataset's length checks pass for the call.
CallLongEnough ==
    /\ call.data.sectors # <<>>
    /\ CallMinLen >= NN_LOOKBACK_DAYS + NN_FORWARD_DAYS + LONG_VOL_WINDOW

\* C28: when the bond-spread series (or the benchmark volatility series)
\* has m < vol_len entries, the dataset is still built and only the missing
\* portion is zero-filled: the m available values occupy the trailing m
\* time indices of the spread and slope (or benchmark) feature, and only
\* the vol_len - m leading indices hold 0.0.
C28_OnlyMissingPortionZeroFilled ==
    (Returned("build_dataset") /\ CallLongEnough) =>
        LET samples == ret[1].samples
            m_bond == Len(CallBondSpreads)
            m_bench == CallBenchmarkLen
        IN  /\ samples # <<>>
            /\ \A i \in 1..Len(samples) : \A k \in 1..NN_LOOKBACK_DAYS :
                  LET t == (i - 1) + (k - 1)
                  IN  /\ m_bond < CallVolLen =>
                            IF t < CallVolLen - m_bond
                            THEN /\ SpreadAt(samples, i, k) = Zero
                                 /\ SlopeAt(samples, i, k) = Zero
                            ELSE /\ SpreadAt(samples, i, k).k = "spread"
                                 /\ SlopeAt(samples, i, k).k = "slope"
                      /\ (call.data.benchmark.present /\ m_bench < CallVolLen) =>
                            IF t < CallVolLen - m_bench
                            THEN BenchmarkAt(samples, i, k) = Zero
                            ELSE BenchmarkAt(samples, i, k).k = "vol"

(***************************************************************************)
(* The configured sizes.                                                   *)
(***************************************************************************)
\* C29: with the configured constants (SHORT_VOL_WINDOW = 21,
\* LONG_VOL_WINDOW = 63, batch size 32), every non-empty dataset has exactly
\* min_len - 20 - lookback - forward >= 43 samples, so floor(0.8 * N) >= 32
\* and the held-out portion is non-empty: train() never ends in the
\* "Dataset too small" Error, only in the empty-dataset one.  (The sample
\* count of the length arithmetic is the one build_dataset returns.)
C29_ConfiguredDatasetNeverTooSmall ==
    /\ Returned("configured_run") =>
          LET N == ret[1].total
          IN  /\ N > 0 =>
                    /\ N = call.min_len - 20 - CONFIG_NN_LOOKBACK_DAYS - CONFIG_NN_FORWARD_DAYS
                    /\ N >= 43
                    /\ (N * 4) \div 5 >= 32
                    /\ N - (N * 4) \div 5 >= 1
                    /\ ret[1].error = "none"
              /\ N = 0 => ret[1].error = "NotEnoughData"
              /\ ret[1].error # "DatasetTooSmall"
    /\ (Returned("build_dataset") /\ call.data.sectors # <<>>) =>
          Len(ret[1].samples) =
              sample_count(CallMinLen, SHORT_VOL_WINDOW, LONG_VOL_WINDOW,
                           NN_LOOKBACK_DAYS, NN_FORWARD_DAYS)

\* The smallest non-empty dataset of the configured sizes: 43 samples from
\* 128 returns.
C29_Witness ==
    /\ Returned("configured_run")
    /\ ret[1].total = 43
    /\ ret[1].error = "none"

(***************************************************************************)
(* Termination of a worker.                                                *)
(***************************************************************************)
\* The positions in the worker's log of its terminal status writes.
TerminalPublishes ==
    {i \in 1..Len(log) : log[i].ev = "status" /\ Terminal(log[i].st)}

\* A terminal status write is the worker's last write (and last step).
TerminalPublishIsLast == \A i \in TerminalPublishes : i = Len(log)

\* train() has returned after publishing one terminal status, which the
\* status cell holds.
PublishedTerminal ==
    /\ pc = "done"
    /\ Cardinality(TerminalPublishes) = 1
    /\ Terminal(status)

\* C30: under fair scheduling of the worker and the observer, however often
\* the observer polls, a started worker eventually publishes exactly one
\* terminal status (Complete or Error), and writes to no shared cell after
\* that publish.
C30_WorkerPublishesOneTerminalStatus ==
    /\ []TerminalPublishIsLast
    /\ [](pc = "done" => PublishedTerminal)
    /\ <>PublishedTerminal

\* A worker that went through its epochs has returned while the observer
\* was in the middle of a poll.
C30_Witness ==
    /\ PublishedTerminal
    /\ status.tag = "Complete"
    /\ ui_pc # "frame"

====
